---- MODULE Spec2Model ----
(***************************************************************************)
(* A model of the Read-based ITM/DWT packet decoder (src/itm/src/lib.rs)   *)
(* and of its two iterators, Singles and Timestamps (src/itm/src/iter.rs), *)
(* and of the push-style decoder of the older crate (src/src/lib.rs).      *)
(*                                                                         *)
(* Conventions                                                             *)
(*   - Option<T>: <<>> is None, <<x>> is Some(x).                          *)
(*   - u8 values are integers 0..255; a Vec<u8> is a sequence of them.     *)
(*   - u32/u64 values that may exceed the checker's integers (timestamps,  *)
(*     PC values, nanosecond counts) are kept as bit sequences, least      *)
(*     significant bit first, without high zero bits ("Bits"); zero is     *)
(*     <<>>.                                                               *)
(*   - the BitVec of Buffer is a sequence of bits; BitVec::pop takes the   *)
(*     LAST element.                                                       *)
(***************************************************************************)
EXTENDS Integers, Sequences, FiniteSets, TLC

VARIABLES
    input,          \* every byte the reader will ever deliver (history)
    reader,         \* bytes the reader can deliver now and has not yet been asked for
    pending,        \* bytes that reach the reader later (temporary end of input)
    buffer,         \* Buffer.buffer, the BitVec
    sync,           \* Decoder.sync : Option<usize>
    ignore_eof,     \* Buffer.ignore_eof (DecoderOptions.ignore_eof)
    log,            \* one record per pull of Singles (history)
    options,        \* Timestamps.options : TimestampsConfiguration
    current_offset, \* Timestamps.current_offset : Duration, in nanoseconds (Bits)
    gts,            \* Timestamps.gts : Gts
    tlog,           \* one record per pull of Timestamps (history)
    decoder         \* the push-style Decoder of src/src/lib.rs: incoming, state,
                    \* ts_ctx; <<>> while only the Read-based decoder is in use

vars == <<input, reader, pending, buffer, sync, ignore_eof, log,
          options, current_offset, gts, tlog, decoder>>

(***************************************************************************)
(* Bounds of the model.                                                    *)
(***************************************************************************)
MaxBody == 3     \* bytes of a stream after its run of 0x00 bytes
MaxChunk == 2    \* most bytes one Read::read call delivers
MaxPulls == 5    \* pulls of an iterator in one behaviour
MaxPkts == 4     \* packets of a stream decoded by Timestamps
MaxCont == 6     \* payload bytes with the continuation bit set, in a row

MaxGts == 3      \* packets and packet groups of a stream of global timestamps
None == <<>>
Some(x) == <<x>>

Min(a, b) == IF a <= b THEN a ELSE b
Max(a, b) == IF a >= b THEN a ELSE b

Reverse(s) == [i \in 1..Len(s) |-> s[Len(s) + 1 - i]]

(***************************************************************************)
(* Unsigned integers as bit sequences.                                     *)
(***************************************************************************)
\* a bit sequence without its leading (last) zeros
RECURSIVE TopBit(_, _)
TopBit(b, i) == IF i = 0 THEN 0 ELSE IF b[i] = 1 THEN i ELSE TopBit(b, i - 1)
Norm(b) == SubSeq(b, 1, TopBit(b, Len(b)))

RECURSIVE NatToBits(_)
NatToBits(n) == IF n = 0 THEN <<>> ELSE <<n % 2>> \o NatToBits(n \div 2)

RECURSIVE BitsToNat(_)
BitsToNat(b) == IF b = <<>> THEN 0 ELSE b[1] + 2 * BitsToNat(Tail(b))

Zeros(k) == [i \in 1..k |-> 0]

\* x << k, x >> k, and truncation to w bits (an `as` cast to a narrower type)
BShl(b, k) == IF b = <<>> THEN <<>> ELSE Zeros(k) \o b
BShr(b, k) == IF k >= Len(b) THEN <<>> ELSE SubSeq(b, k + 1, Len(b))
BTrunc(b, w) == Norm(SubSeq(b, 1, Min(w, Len(b))))

BitAt(b, i) == IF i <= Len(b) THEN b[i] ELSE 0
BOr(a, b) == Norm([i \in 1..Max(Len(a), Len(b)) |->
                    IF BitAt(a, i) = 1 \/ BitAt(b, i) = 1 THEN 1 ELSE 0])

\* a < b, a <= b on normalised bit sequences
BLt(a, b) ==
    IF Len(a) # Len(b) THEN Len(a) < Len(b)
    ELSE \E i \in 1..Len(a) :
            /\ a[i] < b[i]
            /\ \A j \in (i + 1)..Len(a) : a[j] = b[j]
BLeq(a, b) == ~BLt(b, a)

\* a bit sequence as limbs of w bits, lowest first, and back
RECURSIVE Limb(_, _, _)
Limb(b, p, w) == IF w = 0 THEN 0 ELSE BitAt(b, p + 1) + 2 * Limb(b, p + 1, w - 1)
Limbs(b, w) == [i \in 1..((Len(b) + w - 1) \div w) |-> Limb(b, w * (i - 1), w)]
RECURSIVE TopLimb(_, _)
TopLimb(ds, i) == IF i = 0 THEN 0 ELSE IF ds[i] # 0 THEN i ELSE TopLimb(ds, i - 1)
UnLimbsTo(ds, w, n) ==
    Norm([k \in 1..(w * n) |-> (ds[(k - 1) \div w + 1] \div (2 ^ ((k - 1) % w))) % 2])
UnLimbs(ds, w) == UnLimbsTo(ds, w, TopLimb(ds, Len(ds)))

\* a + b on limbs of 15 bits.  The carry runs through the limbs lo..hi; the
\* range is halved so that the evaluation nests no deeper than the logarithm
\* of the width.
LimbAt(ds, i) == IF i <= Len(ds) THEN ds[i] ELSE 0
RECURSIVE BAddRange(_, _, _, _, _)
BAddJoin(low, high) == [limbs |-> low.limbs \o high.limbs, carry |-> high.carry]
BAddHigh(a, b, mid, hi, low) == BAddJoin(low, BAddRange(a, b, mid + 1, hi, low.carry))
BAddRange(a, b, lo, hi, carry) ==
    IF lo > hi THEN [limbs |-> <<>>, carry |-> carry]
    ELSE IF lo = hi
    THEN [limbs |-> <<(LimbAt(a, lo) + LimbAt(b, lo) + carry) % 32768>>,
          carry |-> (LimbAt(a, lo) + LimbAt(b, lo) + carry) \div 32768]
    ELSE BAddHigh(a, b, (lo + hi) \div 2, hi,
                  BAddRange(a, b, lo, (lo + hi) \div 2, carry))
BAddOut(r) == UnLimbs(Append(r.limbs, r.carry), 15)
BAddLimbs(a, b) == BAddOut(BAddRange(a, b, 1, Max(Len(a), Len(b)), 0))
BAdd(a, b) == BAddLimbs(Limbs(a, 15), Limbs(b, 15))

(***************************************************************************)
(* Buffer (src/itm/src/lib.rs).  A decoder value d is a record             *)
(*   buffer, reader, chunk, ignore_eof, sync : the state                   *)
(*   st  : "Ok" | "Eof" | "Spin" | "Malformed", the outcome of the call    *)
(*   val : the value returned with it                                      *)
(*   trace : the bytes pop_byte has assembled so far (history)             *)
(* "Spin" stands for buffer_some looping forever on a reader that is at    *)
(* end of input while ignore_eof is set.  chunk is the most bytes one      *)
(* Read::read call of this reader delivers.                                *)
(***************************************************************************)
ReadBufLen == 32

\* BitVec::<LocalBits, _>::from_vec: bit 0 of the first byte comes first
ByteBits(b) == [i \in 1..8 |-> (b \div (2 ^ (i - 1))) % 2]

RECURSIVE FromVec(_)
FromVec(bytes) == IF bytes = <<>> THEN <<>>
                  ELSE ByteBits(Head(bytes)) \o FromVec(Tail(bytes))

Ret(d, st, val) == [d EXCEPT !.st = st, !.val = val]

\* variant: the bits of a read are not reversed before they are queued
buffer_some_unreversed(d) ==
    IF d.reader = <<>>
    THEN (IF d.ignore_eof THEN Ret(d, "Spin", 0) ELSE Ret(d, "Eof", 0))
    ELSE LET n  == Min(ReadBufLen, Min(d.chunk, Len(d.reader)))
             bv == FromVec(SubSeq(d.reader, 1, n))
         IN [d EXCEPT !.buffer = bv \o d.buffer,
                      !.reader = SubSeq(d.reader, n + 1, Len(d.reader)),
                      !.st = "Ok", !.val = 0]
\* variant: end of input is reported whatever ignore_eof says
buffer_some_eof(d) ==
    IF d.reader = <<>>
    THEN Ret(d, "Eof", 0)
    ELSE LET n  == Min(ReadBufLen, Min(d.chunk, Len(d.reader)))
             bv == Reverse(FromVec(SubSeq(d.reader, 1, n)))
         IN [d EXCEPT !.buffer = bv \o d.buffer,
                      !.reader = SubSeq(d.reader, n + 1, Len(d.reader)),
                      !.st = "Ok", !.val = 0]
buffer_some(d) ==
    IF d.reader = <<>>
    THEN (IF d.ignore_eof THEN Ret(d, "Spin", 0) ELSE Ret(d, "Eof", 0))
    ELSE LET n  == Min(ReadBufLen, Min(d.chunk, Len(d.reader)))
             bv == Reverse(FromVec(SubSeq(d.reader, 1, n)))
         IN [d EXCEPT !.buffer = bv \o d.buffer,
                      !.reader = SubSeq(d.reader, n + 1, Len(d.reader)),
                      !.st = "Ok", !.val = 0]

\* A value bound once and used several times is passed as a parameter: the
\* operators named *_bit, *_byte, *_with take the outcome r of the call made
\* just before them.
RECURSIVE pop_bit(_)
pop_bit_refilled(r) == IF r.st = "Ok" THEN pop_bit(r) ELSE r
pop_bit(d) ==
    IF d.buffer = <<>>
    THEN pop_bit_refilled(buffer_some(d))
    ELSE [d EXCEPT !.buffer = SubSeq(d.buffer, 1, Len(d.buffer) - 1),
                   !.st = "Ok", !.val = d.buffer[Len(d.buffer)]]

RECURSIVE pop_byte_from(_, _, _)
pop_byte_bit(r, i, b) ==
    IF r.st # "Ok" THEN r ELSE pop_byte_from(r, i + 1, b + r.val * (2 ^ i))
pop_byte_from(d, i, b) ==
    IF i = 8
    THEN [d EXCEPT !.st = "Ok", !.val = b, !.trace = Append(@, b)]
    ELSE pop_byte_bit(pop_bit(d), i, b)
pop_byte(d) == pop_byte_from(d, 0, 0)

RECURSIVE pop_bytes_from(_, _, _)
pop_bytes_byte(r, cnt, bytes) ==
    IF r.st # "Ok" THEN r ELSE pop_bytes_from(r, cnt - 1, Append(bytes, r.val))
pop_bytes_from(d, cnt, bytes) ==
    IF cnt = 0 THEN Ret(d, "Ok", bytes) ELSE pop_bytes_byte(pop_byte(d), cnt, bytes)
\* variant: the last byte of the payload is left in the stream
pop_bytes_short(d, cnt) == pop_bytes_from(d, cnt - 1, <<>>)
pop_bytes(d, cnt) == pop_bytes_from(d, cnt, <<>>)

RECURSIVE pop_payload_from(_, _)
pop_payload_byte(r, payload) ==
    IF r.st # "Ok" THEN r
    ELSE IF r.val \div 128 = 0 THEN Ret(r, "Ok", Append(payload, r.val))
    ELSE pop_payload_from(r, Append(payload, r.val))
pop_payload_from(d, payload) == pop_payload_byte(pop_byte(d), payload)
pop_payload(d) == pop_payload_from(d, <<>>)

(***************************************************************************)
(* Packets and malformed packets are records with a tag t.                 *)
(***************************************************************************)
SYNC_MIN_ZEROS == 47

Ok(d, p) == Ret(d, "Ok", p)
Malformed(d, m) == Ret(d, "Malformed", m)

\* bits hi..lo of a byte, bit 0 the least significant
Field(b, hi, lo) == (b \div (2 ^ lo)) % (2 ^ (hi - lo + 1))

\* variant: the bytes before the last one taken most significant first
extract_timestamp_msb_first(payload, max_len) ==
    LET n     == Len(payload)
        rtail == SubSeq(payload, 1, n - 1)
        head  == payload[n]
        shift == 7 - (max_len % 7)
        mask  == ((255 * (2 ^ shift)) % 256) \div (2 ^ shift)
        low   == [i \in 1..(7 * (n - 1)) |->
                    ByteBits(rtail[(n - 1) - ((i - 1) \div 7)])[((i - 1) % 7) + 1]]
        top   == [i \in 1..8 |-> IF (mask \div (2 ^ (i - 1))) % 2 = 1
                                 THEN ByteBits(head)[i] ELSE 0]
    IN BTrunc(low \o top, 64)

\* the shifts 7 * i stay below 64 for the payloads of at most MaxCont + 1
\* bytes that the streams hold (a payload of eleven bytes would shift by 70)
extract_timestamp(payload, max_len) ==
    LET n     == Len(payload)
        rtail == SubSeq(payload, 1, n - 1)
        head  == payload[n]
        shift == 7 - (max_len % 7)
        mask  == ((255 * (2 ^ shift)) % 256) \div (2 ^ shift)
        low   == [i \in 1..(7 * (n - 1)) |->
                    ByteBits(rtail[((i - 1) \div 7) + 1])[((i - 1) % 7) + 1]]
        top   == [i \in 1..8 |-> IF (mask \div (2 ^ (i - 1))) % 2 = 1
                                 THEN ByteBits(head)[i] ELSE 0]
    IN BTrunc(low \o top, 64)

\* variant: the sizes of Table D4-4 as they are, the header byte counted in
translate_ss_with_header(ss) ==
    IF ss = 1 THEN Some(2)
    ELSE IF ss = 2 THEN Some(3)
    ELSE IF ss = 3 THEN Some(5)
    ELSE None

translate_ss(ss) ==
    IF ss = 1 THEN Some(2 - 1)
    ELSE IF ss = 2 THEN Some(3 - 1)
    ELSE IF ss = 3 THEN Some(5 - 1)
    ELSE None

\* variant: the relations of tc = 01 and tc = 10 exchanged
DataRelation_swapped(tc) ==
    IF tc = 0 THEN "Sync"
    ELSE IF tc = 1 THEN "AssocEventDelay"
    ELSE IF tc = 2 THEN "UnknownDelay"
    ELSE "UnknownAssocEventDelay"
DataRelation(tc) ==
    IF tc = 0 THEN "Sync"
    ELSE IF tc = 1 THEN "UnknownDelay"
    ELSE IF tc = 2 THEN "AssocEventDelay"
    ELSE "UnknownAssocEventDelay"

\* the result has k = "Packet" | "Stub" | "Err"
\* variant: the aaaa_a1ss arm looks at ss before the discriminator
decode_header_ss_first(header) ==
    LET a == Field(header, 7, 3)
        s == Field(header, 1, 0)
    IN IF header = 0
       THEN [k |-> "Stub", v |-> [t |-> "Sync", count |-> 8]]
       ELSE IF header = 112
       THEN [k |-> "Packet", v |-> [t |-> "Overflow"]]
       ELSE IF Field(header, 7, 6) = 3 /\ Field(header, 3, 0) = 0
       THEN [k |-> "Stub", v |-> [t |-> "LocalTimestamp",
                                  data_relation |-> DataRelation(Field(header, 5, 4))]]
       ELSE IF Field(header, 7, 7) = 0 /\ Field(header, 3, 0) = 0
       THEN [k |-> "Packet", v |-> [t |-> "LocalTimestamp2", ts |-> Field(header, 6, 4)]]
       ELSE IF header = 148
       THEN [k |-> "Stub", v |-> [t |-> "GlobalTimestamp1"]]
       ELSE IF header = 180
       THEN [k |-> "Stub", v |-> [t |-> "GlobalTimestamp2"]]
       ELSE IF Field(header, 7, 7) = 0 /\ Field(header, 3, 0) = 8
       THEN [k |-> "Packet", v |-> [t |-> "Extension", page |-> Field(header, 6, 4)]]
       ELSE IF Field(header, 2, 2) = 0
       THEN (IF translate_ss(s) # None
             THEN [k |-> "Stub", v |-> [t |-> "Instrumentation", port |-> a,
                                        expected_size |-> translate_ss(s)[1]]]
             ELSE [k |-> "Err", v |-> [t |-> "InvalidSourcePayload",
                                       header |-> header, size |-> s]])
       ELSE IF translate_ss(s) = None
       THEN [k |-> "Err", v |-> [t |-> "InvalidSourcePayload",
                                 header |-> header, size |-> s]]
       ELSE IF ~(a \in 0..2) /\ ~(a \in 8..23)
       THEN [k |-> "Err", v |-> [t |-> "InvalidHardwareDisc", disc_id |-> a, size |-> s]]
       ELSE [k |-> "Stub", v |-> [t |-> "HardwareSource", disc_id |-> a,
                                  expected_size |-> translate_ss(s)[1]]]
decode_header(header) ==
    LET a == Field(header, 7, 3)
        s == Field(header, 1, 0)
    IN IF header = 0
       THEN [k |-> "Stub", v |-> [t |-> "Sync", count |-> 8]]
       ELSE IF header = 112
       THEN [k |-> "Packet", v |-> [t |-> "Overflow"]]
       ELSE IF Field(header, 7, 6) = 3 /\ Field(header, 3, 0) = 0
       THEN [k |-> "Stub", v |-> [t |-> "LocalTimestamp",
                                  data_relation |-> DataRelation(Field(header, 5, 4))]]
       ELSE IF Field(header, 7, 7) = 0 /\ Field(header, 3, 0) = 0
       THEN [k |-> "Packet", v |-> [t |-> "LocalTimestamp2", ts |-> Field(header, 6, 4)]]
       ELSE IF header = 148
       THEN [k |-> "Stub", v |-> [t |-> "GlobalTimestamp1"]]
       ELSE IF header = 180
       THEN [k |-> "Stub", v |-> [t |-> "GlobalTimestamp2"]]
       ELSE IF Field(header, 7, 7) = 0 /\ Field(header, 3, 0) = 8
       THEN [k |-> "Packet", v |-> [t |-> "Extension", page |-> Field(header, 6, 4)]]
       ELSE IF Field(header, 2, 2) = 0
       THEN (IF translate_ss(s) # None
             THEN [k |-> "Stub", v |-> [t |-> "Instrumentation", port |-> a,
                                        expected_size |-> translate_ss(s)[1]]]
             ELSE [k |-> "Err", v |-> [t |-> "InvalidSourcePayload",
                                       header |-> header, size |-> s]])
       ELSE IF Field(header, 2, 2) = 1
       THEN (IF ~(a \in 0..2) /\ ~(a \in 8..23)
             THEN [k |-> "Err", v |-> [t |-> "InvalidHardwareDisc",
                                       disc_id |-> a, size |-> s]]
             ELSE IF translate_ss(s) # None
             THEN [k |-> "Stub", v |-> [t |-> "HardwareSource", disc_id |-> a,
                                        expected_size |-> translate_ss(s)[1]]]
             ELSE [k |-> "Err", v |-> [t |-> "InvalidSourcePayload",
                                       header |-> header, size |-> s]])
       ELSE [k |-> "Err", v |-> [t |-> "InvalidHeader", header |-> header]]

\* cortex_m::peripheral::scb::VectActive::from(u8) : Option<VectActive>.  The
\* crate is a dependency; decode_exceptiontrace_packet (tests/singles.rs)
\* shows that an external interrupt carries the vector number as irqn.
VectActive_from(n) ==
    IF n = 0 THEN Some([t |-> "ThreadMode"])
    ELSE IF n = 2 THEN Some([t |-> "Exception", e |-> "NonMaskableInt"])
    ELSE IF n = 3 THEN Some([t |-> "Exception", e |-> "HardFault"])
    ELSE IF n = 4 THEN Some([t |-> "Exception", e |-> "MemoryManagement"])
    ELSE IF n = 5 THEN Some([t |-> "Exception", e |-> "BusFault"])
    ELSE IF n = 6 THEN Some([t |-> "Exception", e |-> "UsageFault"])
    ELSE IF n = 7 THEN Some([t |-> "Exception", e |-> "SecureFault"])
    ELSE IF n = 11 THEN Some([t |-> "Exception", e |-> "SVCall"])
    ELSE IF n = 12 THEN Some([t |-> "Exception", e |-> "DebugMonitor"])
    ELSE IF n = 14 THEN Some([t |-> "Exception", e |-> "PendSV"])
    ELSE IF n = 15 THEN Some([t |-> "Exception", e |-> "SysTick"])
    ELSE IF n >= 16 THEN Some([t |-> "Interrupt", irqn |-> n])
    ELSE None

\* the result has st = "Ok" | "Malformed" and val
handle_hardware_source(disc_id, payload) ==
    LET bad == [st |-> "Malformed",
                val |-> [t |-> "InvalidHardwarePacket", disc_id |-> disc_id,
                         payload |-> payload]]
    IN
    IF disc_id = 0
    THEN (IF Len(payload) # 1 THEN bad
          ELSE [st |-> "Ok",
                val |-> [t |-> "EventCounterWrap",
                         cyc   |-> Field(payload[1], 5, 5) # 0,
                         fold  |-> Field(payload[1], 4, 4) # 0,
                         lsu   |-> Field(payload[1], 3, 3) # 0,
                         sleep |-> Field(payload[1], 2, 2) # 0,
                         exc   |-> Field(payload[1], 1, 1) # 0,
                         cpi   |-> Field(payload[1], 0, 0) # 0]])
    ELSE IF disc_id = 1
    THEN (IF Len(payload) # 2 THEN bad
          ELSE LET f == Field(payload[2], 5, 4)
                   e == Field(payload[2], 0, 0)
                   exception_number == e * 256 + payload[1]
                   invalid == [st |-> "Malformed",
                               val |-> [t |-> "InvalidExceptionTrace",
                                        exception |-> exception_number,
                                        function |-> f]]
               IN IF exception_number > 255 THEN invalid
                  ELSE IF VectActive_from(exception_number) = None THEN invalid
                  ELSE IF f = 0 THEN invalid
                  ELSE [st |-> "Ok",
                        val |-> [t |-> "ExceptionTrace",
                                 exception |-> VectActive_from(exception_number)[1],
                                 action |-> IF f = 1 THEN "Entered"
                                            ELSE IF f = 2 THEN "Exited"
                                            ELSE "Returned"]])
    ELSE IF disc_id = 2
    THEN (IF Len(payload) = 1 /\ payload[1] = 0
          THEN [st |-> "Ok", val |-> [t |-> "PCSample", pc |-> None]]
          ELSE IF Len(payload) = 4
          THEN [st |-> "Ok", val |-> [t |-> "PCSample",
                                      pc |-> Some(Norm(FromVec(payload)))]]
          ELSE [st |-> "Malformed",
                val |-> [t |-> "InvalidPCSampleSize", payload |-> payload]])
    ELSE \* 8..=23; other discriminators are rejected by decode_header
         LET ty         == Field(disc_id, 4, 3)
             comparator == Field(disc_id, 2, 1)
             dd         == Field(disc_id, 0, 0)
         IN IF ty = 1 /\ dd = 0 /\ Len(payload) = 4
            THEN [st |-> "Ok", val |-> [t |-> "DataTracePC", comparator |-> comparator,
                                        pc |-> Norm(FromVec(payload))]]
            ELSE IF ty = 1 /\ dd = 1 /\ Len(payload) = 2
            THEN [st |-> "Ok", val |-> [t |-> "DataTraceAddress",
                                        comparator |-> comparator, data |-> payload]]
            ELSE IF ty = 2
            THEN [st |-> "Ok", val |-> [t |-> "DataTraceValue",
                                        comparator |-> comparator,
                                        access_type |-> IF dd = 0 THEN "Read" ELSE "Write",
                                        value |-> payload]]
            ELSE bad

(***************************************************************************)
(* Decoder                                                                 *)
(***************************************************************************)
RECURSIVE handle_sync(_)
\* variant: the threshold compared with > instead of >=
handle_sync_bit_gt(r, zeros) ==
    IF r.st # "Ok" THEN r
    ELSE IF r.val = 1 /\ zeros > SYNC_MIN_ZEROS
    THEN Ok([r EXCEPT !.sync = None], [t |-> "Sync"])
    ELSE IF r.val = 1
    THEN Malformed([r EXCEPT !.sync = None], [t |-> "InvalidSync", zeros |-> zeros])
    ELSE handle_sync([r EXCEPT !.sync = Some(zeros + 1)])
\* variant: a Sync drops the rest of the input byte its 1 bit is in
handle_sync_bit_snap(r, zeros) ==
    IF r.st # "Ok" THEN r
    ELSE IF r.val = 1 /\ zeros >= SYNC_MIN_ZEROS
    THEN Ok([r EXCEPT !.sync = None,
                      !.buffer = SubSeq(@, 1, Len(@) - (Len(@) % 8))],
            [t |-> "Sync"])
    ELSE IF r.val = 1
    THEN Malformed([r EXCEPT !.sync = None], [t |-> "InvalidSync", zeros |-> zeros])
    ELSE handle_sync([r EXCEPT !.sync = Some(zeros + 1)])
\* variant: an InvalidSync leaves the count in Decoder.sync
handle_sync_bit_keep(r, zeros) ==
    IF r.st # "Ok" THEN r
    ELSE IF r.val = 1 /\ zeros >= SYNC_MIN_ZEROS
    THEN Ok([r EXCEPT !.sync = None], [t |-> "Sync"])
    ELSE IF r.val = 1
    THEN Malformed(r, [t |-> "InvalidSync", zeros |-> zeros])
    ELSE handle_sync([r EXCEPT !.sync = Some(zeros + 1)])
\* variant: an end of input during the count clears Decoder.sync
handle_sync_bit_forget(r, zeros) ==
    IF r.st # "Ok" THEN [r EXCEPT !.sync = None]
    ELSE IF r.val = 1 /\ zeros >= SYNC_MIN_ZEROS
    THEN Ok([r EXCEPT !.sync = None], [t |-> "Sync"])
    ELSE IF r.val = 1
    THEN Malformed([r EXCEPT !.sync = None], [t |-> "InvalidSync", zeros |-> zeros])
    ELSE handle_sync([r EXCEPT !.sync = Some(zeros + 1)])
handle_sync_bit(r, zeros) ==
    IF r.st # "Ok" THEN r
    ELSE IF r.val = 1 /\ zeros >= SYNC_MIN_ZEROS
    THEN Ok([r EXCEPT !.sync = None], [t |-> "Sync"])
    ELSE IF r.val = 1
    THEN Malformed([r EXCEPT !.sync = None], [t |-> "InvalidSync", zeros |-> zeros])
    ELSE handle_sync([r EXCEPT !.sync = Some(zeros + 1)])
\* the (false, _) arm taken once for every 0 bit at the head of the queue: the
\* bits are popped and counted in Decoder.sync
ZeroRun(b) ==
    CHOOSE n \in 0..Len(b) :
        /\ n = Len(b) \/ b[Len(b) - n] = 1
        /\ \A j \in (Len(b) - n + 1)..Len(b) : b[j] = 0
skip_zeros(d) ==
    [d EXCEPT !.buffer = SubSeq(@, 1, Len(@) - ZeroRun(@)),
              !.sync = Some(@[1] + ZeroRun(d.buffer))]
handle_sync_next(d) == handle_sync_bit(pop_bit(d), d.sync[1])
handle_sync(d) == handle_sync_next(skip_zeros(d))

RetOf(r, h) == Ret(r, h.st, h.val)

\* variant: the payload handed over last byte first
hardware_source_with_reversed(r, disc_id) ==
    IF r.st # "Ok" THEN r ELSE RetOf(r, handle_hardware_source(disc_id, Reverse(r.val)))

\* variant: bit 0 of the discriminator (the direction d) dropped
hardware_source_with_even(r, disc_id) ==
    IF r.st # "Ok" THEN r
    ELSE RetOf(r, handle_hardware_source(2 * (disc_id \div 2), r.val))

hardware_source_with(r, disc_id) ==
    IF r.st # "Ok" THEN r ELSE RetOf(r, handle_hardware_source(disc_id, r.val))

local_timestamp_with(r, data_relation) ==
    IF r.st # "Ok" THEN r
    ELSE Ok(r, [t |-> "LocalTimestamp1",
                data_relation |-> data_relation,
                ts |-> BTrunc(extract_timestamp(r.val, 27), 32)])

\* variant: wrap read from bit 5 and clkch from bit 6
global_timestamp1_with_swapped(r) ==
    IF r.st # "Ok" THEN r
    ELSE Ok(r, [t |-> "GlobalTimestamp1",
                clkch |-> Field(r.val[Len(r.val)], 6, 6) > 0,
                wrap  |-> Field(r.val[Len(r.val)], 5, 5) > 0,
                ts    |-> extract_timestamp(r.val, 25)])

global_timestamp1_with(r) ==
    IF r.st # "Ok" THEN r
    ELSE Ok(r, [t |-> "GlobalTimestamp1",
                clkch |-> Field(r.val[Len(r.val)], 5, 5) > 0,
                wrap  |-> Field(r.val[Len(r.val)], 6, 6) > 0,
                ts    |-> extract_timestamp(r.val, 25)])

\* variant: the widths 48 and 64 without the 26 bits of GTS1 taken off
global_timestamp2_with_full(r) ==
    IF r.st # "Ok" THEN r
    ELSE IF Len(r.val) = 4
    THEN Ok(r, [t |-> "GlobalTimestamp2", ts |-> extract_timestamp(r.val, 47)])
    ELSE IF Len(r.val) = 6
    THEN Ok(r, [t |-> "GlobalTimestamp2", ts |-> extract_timestamp(r.val, 63)])
    ELSE Malformed(r, [t |-> "InvalidGTS2Size", payload |-> r.val])

global_timestamp2_with(r) ==
    IF r.st # "Ok" THEN r
    ELSE IF Len(r.val) = 4
    THEN Ok(r, [t |-> "GlobalTimestamp2", ts |-> extract_timestamp(r.val, 47 - 26)])
    ELSE IF Len(r.val) = 6
    THEN Ok(r, [t |-> "GlobalTimestamp2", ts |-> extract_timestamp(r.val, 63 - 26)])
    ELSE Malformed(r, [t |-> "InvalidGTS2Size", payload |-> r.val])

\* variant: the payload of a stimulus port stored last byte first
instrumentation_with_reversed(r, port) ==
    IF r.st # "Ok" THEN r
    ELSE Ok(r, [t |-> "Instrumentation", port |-> port, payload |-> Reverse(r.val)])

instrumentation_with(r, port) ==
    IF r.st # "Ok" THEN r
    ELSE Ok(r, [t |-> "Instrumentation", port |-> port, payload |-> r.val])

process_stub(d, stub) ==
    IF stub.t = "Sync"
    THEN handle_sync([d EXCEPT !.sync = Some(stub.count)])
    ELSE IF stub.t = "HardwareSource"
    THEN hardware_source_with(pop_bytes(d, stub.expected_size), stub.disc_id)
    ELSE IF stub.t = "LocalTimestamp"
    THEN local_timestamp_with(pop_payload(d), stub.data_relation)
    ELSE IF stub.t = "GlobalTimestamp1"
    THEN global_timestamp1_with(pop_payload(d))
    ELSE IF stub.t = "GlobalTimestamp2"
    THEN global_timestamp2_with(pop_payload(d))
    ELSE instrumentation_with(pop_bytes(d, stub.expected_size), stub.port)

\* variant: a header that is an error takes the byte after it along
next_single_variant_skipping(r, h) ==
    IF h.k = "Err" THEN Malformed(pop_byte(r), h.v)
    ELSE IF h.k = "Packet" THEN Ok(r, h.v)
    ELSE process_stub(r, h.v)

next_single_variant(r, h) ==
    IF h.k = "Err" THEN Malformed(r, h.v)
    ELSE IF h.k = "Packet" THEN Ok(r, h.v)
    ELSE process_stub(r, h.v)

next_single_header(r) ==
    IF r.st # "Ok" THEN r ELSE next_single_variant(r, decode_header(r.val))

next_single(d) ==
    IF d.sync # None THEN handle_sync(d) ELSE next_single_header(pop_byte(d))


(***************************************************************************)
(* The f64 arithmetic of calc_offset (src/itm/src/iter.rs).  A double is   *)
(* m * 2^e with m a bit sequence; every operation yields the exact result  *)
(* rounded to 53 significant bits, ties to even (IEEE 754 binary64).  The  *)
(* values calc_offset meets are far from the subnormal and overflow range. *)
(***************************************************************************)
F64(m, e) == [m |-> m, e |-> e]

\* does dropping the low `drop` bits of b round up?  sticky: the exact value
\* exceeds b by a positive fraction of b's last place
RoundsUp(b, drop, sticky) ==
    /\ b[drop] = 1
    /\ \/ sticky
       \/ b[drop + 1] = 1
       \/ \E i \in 1..(drop - 1) : b[i] = 1

\* b * 2^e rounded; a sticky value has more than 53 bits in b
f64_round(b, e, sticky) ==
    IF Len(b) <= 53 THEN F64(b, e)
    ELSE IF RoundsUp(b, Len(b) - 53, sticky)
    THEN F64(BAdd(SubSeq(b, Len(b) - 52, Len(b)), <<1>>), e + Len(b) - 53)
    ELSE F64(SubSeq(b, Len(b) - 52, Len(b)), e + Len(b) - 53)

\* b * c for a bit sequence b and a natural c < 2^21, on limbs of 10 bits,
\* the carry running through the limbs lo..hi
RECURSIVE BMulRange(_, _, _, _, _)
BMulJoin(low, high) == [limbs |-> low.limbs \o high.limbs, carry |-> high.carry]
BMulHigh(ds, c, mid, hi, low) == BMulJoin(low, BMulRange(ds, c, mid + 1, hi, low.carry))
BMulRange(ds, c, lo, hi, carry) ==
    IF lo > hi THEN [limbs |-> <<>>, carry |-> carry]
    ELSE IF lo = hi
    THEN [limbs |-> <<(ds[lo] * c + carry) % 1024>>,
          carry |-> (ds[lo] * c + carry) \div 1024]
    ELSE BMulHigh(ds, c, (lo + hi) \div 2, hi,
                  BMulRange(ds, c, lo, (lo + hi) \div 2, carry))
BMulOut(r) ==
    UnLimbs(r.limbs \o <<r.carry % 1024, (r.carry \div 1024) % 1024, r.carry \div 1048576>>,
            10)
BMulLimbs(ds, c) == BMulOut(BMulRange(ds, c, 1, Len(ds), 0))
BMul(b, c) == BMulLimbs(Limbs(b, 10), c)

\* quotient q and remainder r of a bit sequence b by a natural d > 0: long
\* division on limbs of w bits, where d * 2^w <= 2^31, the remainder running
\* from limb hi down to lo; the quotient's limbs are collected highest first
RECURSIVE BDivRange(_, _, _, _, _, _)
BDivJoin(high, low) == [q |-> high.q \o low.q, r |-> low.r]
BDivLow(ds, d, w, lo, mid, high) ==
    BDivJoin(high, BDivRange(ds, d, w, lo, mid, high.r))
BDivRange(ds, d, w, lo, hi, rem) ==
    IF lo > hi THEN [q |-> <<>>, r |-> rem]
    ELSE IF lo = hi
    THEN [q |-> <<((2 ^ w) * rem + ds[lo]) \div d>>, r |-> ((2 ^ w) * rem + ds[lo]) % d]
    ELSE BDivLow(ds, d, w, lo, (lo + hi) \div 2,
                 BDivRange(ds, d, w, (lo + hi) \div 2 + 1, hi, rem))
BDivOut(qr, w) == [q |-> UnLimbs(Reverse(qr.q), w), r |-> qr.r]
BDivLimbs(ds, d, w) == BDivOut(BDivRange(ds, d, w, 1, Len(ds), 0), w)
BitLen(n) == Len(NatToBits(n))
BDiv(b, d) == BDivLimbs(Limbs(b, 31 - BitLen(d)), d, 31 - BitLen(d))

\* `ticks as f64`
f64_from_u64(b) == f64_round(b, 0, FALSE)

\* x / (freq as f64) for freq > 0 with an odd part below 2^30.  Dividing by a
\* power of two is exact, so the power of two in freq goes to the exponent
\* and the division is by the odd part d.  x.m is shifted so that the quotient has more than 53 bits; the
\* remainder tells whether the quotient is exact.
RECURSIVE TwoPower(_)
TwoPower(n) == IF n % 2 = 1 THEN 0 ELSE 1 + TwoPower(n \div 2)
f64_div_rounded(qr, e) == f64_round(qr.q, e, qr.r # 0)
f64_div_odd(m, e, d, k) == f64_div_rounded(BDiv(BShl(m, k), d), e - k)
f64_div(x, freq) ==
    IF x.m = <<>> THEN F64(<<>>, 0)
    ELSE f64_div_odd(x.m, x.e - TwoPower(freq), freq \div (2 ^ TwoPower(freq)),
                     Max(0, 55 + BitLen(freq \div (2 ^ TwoPower(freq))) - Len(x.m)))

\* x * 1e9; 1e9 = 1953125 * 2^9
f64_mul_1e9(x) == f64_round(BMul(x.m, 1953125), x.e + 9, FALSE)

\* x.ceil() as u64 (the cast saturates)
f64_ceil_u64(x) ==
    IF x.e >= 0
    THEN (IF Len(x.m) + x.e > 64 THEN [i \in 1..64 |-> 1] ELSE BShl(x.m, x.e))
    ELSE IF \E i \in 1..Min(0 - x.e, Len(x.m)) : x.m[i] = 1
    THEN BAdd(BShr(x.m, 0 - x.e), <<1>>)
    ELSE BShr(x.m, 0 - x.e)

(***************************************************************************)
(* Timestamps (src/itm/src/iter.rs).  A Duration is its nanoseconds, a bit *)
(* sequence.                                                               *)
(***************************************************************************)
GTS2_SHIFT == 26

\* variant: the new value takes the place of the old one
replace_lower_overwrite(g, new) == [g EXCEPT !.lower = Some(new)]
replace_lower(g, new) ==
    [g EXCEPT !.lower =
        IF g.lower = None THEN Some(new)
        ELSE Some(BOr(BShl(BShr(g.lower[1], Len(new)), Len(new)), new))]

reset(g) == [lower |-> None, upper |-> None]

merge(g) ==
    IF g.lower # None /\ g.upper # None
    THEN Some(BOr(BTrunc(BShl(g.upper[1], GTS2_SHIFT), 64), g.lower[1]))
    ELSE None

\* Timestamps::new: st = "Panic" is unimplemented!()
\* variant: every prescaler is accepted
Timestamps_new_unchecked(opts) ==
    [st |-> "New", options |-> opts, current_offset |-> <<>>,
     gts |-> [lower |-> None, upper |-> None]]
Timestamps_new(opts) ==
    IF opts.lts_prescaler = "Disabled"
    THEN [st |-> "Panic", options |-> opts]
    ELSE [st |-> "New", options |-> opts, current_offset |-> <<>>,
          gts |-> [lower |-> None, upper |-> None]]

prescale_of(prescaler) ==
    IF prescaler = None \/ prescaler = Some("Enabled") THEN 1
    ELSE IF prescaler = Some("EnabledDiv4") THEN 4
    ELSE IF prescaler = Some("EnabledDiv16") THEN 16
    ELSE 64

\* ts is a u64; freq = 0 divides by 0.0: NaN casts to 0, infinity to u64::MAX
calc_offset_ticks(ticks, freq) ==
    IF freq = 0
    THEN (IF ticks = <<>> THEN <<>> ELSE [i \in 1..64 |-> 1])
    ELSE f64_ceil_u64(f64_mul_1e9(f64_div(f64_from_u64(ticks), freq)))
calc_offset(ts, prescaler, freq) ==
    calc_offset_ticks(BTrunc(BMul(ts, prescale_of(prescaler)), 64), freq)

Stamped(offset, data_relation) ==
    [current_offset |-> offset,
     timestamp |-> [offset |-> offset, data_relation |-> data_relation]]
apply_lts(lts, data_relation, offset, opts) ==
    Stamped(BAdd(offset, calc_offset(lts, Some(opts.lts_prescaler), opts.clock_frequency)),
            data_relation)

apply_gts_merged(merged, offset, opts) ==
    IF merged # None THEN calc_offset(merged[1], None, opts.clock_frequency) ELSE offset
apply_gts(g, offset, opts) == apply_gts_merged(merge(g), offset, opts)

(***************************************************************************)
(* next_timestamped.  t holds the decoder, the locals of the call          *)
(* (packets, malformed_packets, consumed_packets), the fields              *)
(* current_offset and gts, and two history fields: `singles`, what         *)
(* next_single returned during the call, and `base`, current_offset as it  *)
(* was when the local timestamp was applied.  The result carries st = "Ok" *)
(* with the batch in val, or the error: "Malformed" with the packet,       *)
(* "Eof", "Spin".                                                          *)
(***************************************************************************)
\* variant: a batch that is emitted takes the global timestamp with it
Batch_resetting(t, stamped) ==
    [t EXCEPT !.st = "Ok",
              !.base = t.current_offset,
              !.current_offset = stamped.current_offset,
              !.gts = reset(t.gts),
              !.val = [timestamp |-> stamped.timestamp,
                       packets |-> t.packets,
                       malformed_packets |-> t.malformed_packets,
                       consumed_packets |-> t.consumed_packets]]
Batch(t, stamped) ==
    [t EXCEPT !.st = "Ok",
              !.base = t.current_offset,
              !.current_offset = stamped.current_offset,
              !.val = [timestamp |-> stamped.timestamp,
                       packets |-> t.packets,
                       malformed_packets |-> t.malformed_packets,
                       consumed_packets |-> t.consumed_packets]]

\* variant: clkch looked at before wrap
gts1_lower_clkch_first(t, p, g, opts) ==
    IF p.clkch THEN [t EXCEPT !.gts = reset(g)]
    ELSE IF p.wrap THEN [t EXCEPT !.gts = [g EXCEPT !.upper = None]]
    ELSE [t EXCEPT !.gts = g, !.current_offset = apply_gts(g, t.current_offset, opts)]
gts1_lower(t, p, g, opts) ==
    IF p.wrap THEN [t EXCEPT !.gts = [g EXCEPT !.upper = None]]
    ELSE IF p.clkch THEN [t EXCEPT !.gts = reset(g)]
    ELSE [t EXCEPT !.gts = g, !.current_offset = apply_gts(g, t.current_offset, opts)]

gts2_upper(t, g, opts) ==
    [t EXCEPT !.gts = g, !.current_offset = apply_gts(g, t.current_offset, opts)]

RECURSIVE next_timestamped_loop(_, _)
next_timestamped_packet(t, p, opts) ==
    IF p.t = "LocalTimestamp1"
    THEN Batch(t, apply_lts(p.ts, p.data_relation, t.current_offset, opts))
    ELSE IF p.t = "LocalTimestamp2"
    THEN Batch(t, apply_lts(NatToBits(p.ts), "Sync", t.current_offset, opts))
    ELSE IF p.t = "GlobalTimestamp1"
    THEN next_timestamped_loop(gts1_lower(t, p, replace_lower(t.gts, p.ts), opts), opts)
    ELSE IF p.t = "GlobalTimestamp2"
    THEN next_timestamped_loop(gts2_upper(t, [t.gts EXCEPT !.upper = Some(p.ts)], opts), opts)
    ELSE next_timestamped_loop([t EXCEPT !.packets = Append(@, p)], opts)

\* next_timestamped_match without the guard on expect_malformed
next_timestamped_match_unguarded(t, r, opts) ==
    IF r.st = "Malformed"
    THEN [t EXCEPT !.d = r, !.st = r.st, !.val = r.val,
                   !.singles = Append(@, [st |-> r.st, val |-> r.val])]
    ELSE IF r.st # "Ok"
    THEN [t EXCEPT !.d = r, !.st = r.st, !.val = r.val]
    ELSE next_timestamped_packet(
             [t EXCEPT !.d = r, !.singles = Append(@, [st |-> r.st, val |-> r.val])],
             r.val, opts)

\* variant: a pull that ends without a batch forgets the global timestamp
next_timestamped_match_forgetful(t, r, opts) ==
    IF r.st = "Malformed" /\ opts.expect_malformed
    THEN next_timestamped_loop(
             [t EXCEPT !.d = r, !.malformed_packets = Append(@, r.val),
                       !.singles = Append(@, [st |-> r.st, val |-> r.val])], opts)
    ELSE IF r.st = "Malformed"
    THEN [t EXCEPT !.d = r, !.st = r.st, !.val = r.val, !.gts = reset(t.gts),
                   !.singles = Append(@, [st |-> r.st, val |-> r.val])]
    ELSE IF r.st # "Ok"
    THEN [t EXCEPT !.d = r, !.st = r.st, !.val = r.val, !.gts = reset(t.gts)]
    ELSE next_timestamped_packet(
             [t EXCEPT !.d = r, !.singles = Append(@, [st |-> r.st, val |-> r.val])],
             r.val, opts)
next_timestamped_match(t, r, opts) ==
    IF r.st = "Malformed" /\ opts.expect_malformed
    THEN next_timestamped_loop(
             [t EXCEPT !.d = r, !.malformed_packets = Append(@, r.val),
                       !.singles = Append(@, [st |-> r.st, val |-> r.val])], opts)
    ELSE IF r.st = "Malformed"
    THEN [t EXCEPT !.d = r, !.st = r.st, !.val = r.val,
                   !.singles = Append(@, [st |-> r.st, val |-> r.val])]
    ELSE IF r.st # "Ok"
    THEN [t EXCEPT !.d = r, !.st = r.st, !.val = r.val]
    ELSE next_timestamped_packet(
             [t EXCEPT !.d = r, !.singles = Append(@, [st |-> r.st, val |-> r.val])],
             r.val, opts)

next_timestamped_loop(t, opts) ==
    next_timestamped_match([t EXCEPT !.consumed_packets = @ + 1], next_single(t.d), opts)

\* variant: the closing local timestamp is not counted
next_timestamped_uncounted(d, offset, g, opts) ==
    next_timestamped_loop(
        [d |-> d, packets |-> <<>>, malformed_packets |-> <<>>, consumed_packets |-> -1,
         current_offset |-> offset, gts |-> g, singles |-> <<>>, base |-> offset,
         st |-> "Ok", val |-> 0],
        opts)
next_timestamped(d, offset, g, opts) ==
    next_timestamped_loop(
        [d |-> d, packets |-> <<>>, malformed_packets |-> <<>>, consumed_packets |-> 0,
         current_offset |-> offset, gts |-> g, singles |-> <<>>, base |-> offset,
         st |-> "Ok", val |-> 0],
        opts)

(***************************************************************************)
(* The push-style Decoder (src/src/lib.rs).  A decoder value d is a record *)
(*   incoming : the BitVec; push puts the reversed bits of the new bytes   *)
(*              in front, pop takes the last element, the oldest bit       *)
(*   state    : the DecoderState, a record with t = "Header", "Syncing"    *)
(*              (count), "HardwareSource" (disc_id, payload,               *)
(*              expected_size), "LocalTimestamp" (data_relation, payload), *)
(*              "GlobalTimestamp1", "GlobalTimestamp2" (payload),          *)
(*              "Instrumentation" (port, payload, expected_size)           *)
(*   ts_ctx   : the TimestampedContext: packets, gts1, gts2, ts, only_gts  *)
(* A call yields [d, st, val]: the decoder after it and the result,        *)
(* st = "Ok" for Ok(Some(val)), "None" for Ok(None), "Err" for Err(val).   *)
(* usize is taken as 64 bits wide.                                         *)
(***************************************************************************)
MIN_ZEROS == 47
GTS2_TS_SHIFT == 26

push(d, data) == [d EXCEPT !.incoming = Reverse(FromVec(data)) \o @]

\* the loop of handle_sync, run to its end: of the z zero bits that are next
\* it takes those that count up to MIN_ZEROS, then one bit more
Decoder_handle_sync(d) ==
    LET count == d.state.count
        n == Len(d.incoming)
        z == ZeroRun(d.incoming)
        need == Max(0, MIN_ZEROS - count)
    IN IF z > need
       THEN [d |-> [d EXCEPT !.incoming = SubSeq(@, 1, n - need - 1)],
             st |-> "Err", val |-> [t |-> "InvalidSyncSize", count |-> count + need]]
       ELSE IF z = n
       THEN [d |-> [d EXCEPT !.incoming = <<>>], st |-> "None", val |-> 0]
       ELSE IF count + z >= MIN_ZEROS
       THEN [d |-> [d EXCEPT !.incoming = SubSeq(@, 1, n - z - 1),
                             !.state = [t |-> "Header"]],
             st |-> "Ok", val |-> [t |-> "Sync"]]
       ELSE [d |-> [d EXCEPT !.incoming = SubSeq(@, 1, n - z - 1)],
             st |-> "Err", val |-> [t |-> "InvalidSyncSize", count |-> count + z]]

\* process_byte with decode_header in its Header arm: a header that opens a
\* packet with a payload sets the state and yields Ok(None)
process_byte(d, b) ==
    LET s == d.state
        h == decode_header(b)
        opened == IF h.v.t = "Sync" THEN [t |-> "Syncing", count |-> h.v.count]
                  ELSE [f \in DOMAIN h.v \cup {"payload"} |->
                           IF f = "payload" THEN <<>> ELSE h.v[f]]
        pushed == [d EXCEPT !.state.payload = Append(@, b)]
        payload == pushed.state.payload
        last_byte == Field(b, 7, 7) = 0
        packet(p) == [d |-> [pushed EXCEPT !.state = [t |-> "Header"]],
                      st |-> "Ok", val |-> p]
        more == [d |-> pushed, st |-> "None", val |-> 0]
        error(e) == [d |-> pushed, st |-> "Err", val |-> e]
        hardware(r) == IF r.st = "Ok" THEN packet(r.val) ELSE error(r.val)
    IN IF s.t = "Header"
       THEN (IF h.k = "Err" THEN [d |-> d, st |-> "Err", val |-> h.v]
             ELSE IF h.k = "Packet" THEN [d |-> d, st |-> "Ok", val |-> h.v]
             ELSE [d |-> [d EXCEPT !.state = opened], st |-> "None", val |-> 0])
       ELSE IF s.t = "HardwareSource"
       THEN (IF Len(payload) = s.expected_size
             THEN hardware(handle_hardware_source(s.disc_id, payload))
             ELSE more)
       ELSE IF s.t = "LocalTimestamp"
       THEN (IF last_byte
             THEN packet([t |-> "LocalTimestamp1", data_relation |-> s.data_relation,
                          ts |-> extract_timestamp(payload, 27)])
             ELSE more)
       ELSE IF s.t = "GlobalTimestamp1"
       THEN (IF last_byte
             THEN packet([t |-> "GlobalTimestamp1",
                          ts |-> extract_timestamp(payload, 25),
                          clkch |-> Field(payload[Len(payload)], 5, 5) = 1,
                          wrap |-> Field(payload[Len(payload)], 6, 6) = 1])
             ELSE more)
       ELSE IF s.t = "GlobalTimestamp2"
       THEN (IF ~last_byte THEN more
             ELSE IF Len(payload) = 4
             THEN packet([t |-> "GlobalTimestamp2",
                          ts |-> extract_timestamp(payload, 47 - 26)])
             ELSE IF Len(payload) = 6
             THEN packet([t |-> "GlobalTimestamp2",
                          ts |-> extract_timestamp(payload, 63 - 26)])
             ELSE error([t |-> "InvalidGTS2Size", payload |-> payload]))
       ELSE (IF Len(payload) = s.expected_size
             THEN packet([t |-> "Instrumentation", port |-> s.port,
                          payload |-> payload])
             ELSE more)

RECURSIVE pull(_)
pull(d) ==
    LET n == Len(d.incoming)
        b == BitsToNat(Reverse(SubSeq(d.incoming, n - 7, n)))
        popped == [d EXCEPT !.incoming = SubSeq(@, 1, n - 8)]
        match(r) == IF r.st = "None" THEN pull(r.d) ELSE r
    IN IF d.state.t = "Syncing" THEN Decoder_handle_sync(d)
       ELSE IF n >= 8 THEN match(process_byte(popped, b))
       ELSE [d |-> d, st |-> "None", val |-> 0]

\* seen is the list of what the calls of pull have returned so far in this
\* call (history); the call is entered as pull_with_timestamp(d, <<>>)
RECURSIVE pull_with_timestamp(_, _)

\* variant: a new base leaves the diverged flag as it is
pull_with_timestamp_sticky(d, seen) ==
    LET c == d.ts_ctx
        return(r, st, val, ctx) ==
            [d |-> [r.d EXCEPT !.ts_ctx = ctx], st |-> st, val |-> val,
             seen |-> Append(seen, [st |-> r.st, val |-> r.val])]
        with_lts(ts, lts, data_relation) ==
            [ts EXCEPT !.delta = IF @ # None THEN Some(BTrunc(BAdd(@[1], lts), 64))
                                 ELSE Some(lts),
                       !.data_relation = Some(data_relation)]
        assoc_packets_with_lts(r, ts) ==
            return(r, "Ok", [timestamp |-> ts, packets |-> c.packets],
                   [c EXCEPT !.packets = <<>>, !.ts = ts])
        new_base(ctx) ==
            IF ctx.gts1 # None /\ ctx.gts2 # None
            THEN [ctx EXCEPT
                    !.ts = [base |-> Some(BTrunc(BOr(BShl(ctx.gts2[1], GTS2_TS_SHIFT),
                                                     ctx.gts1[1]), 64)),
                            delta |-> None, data_relation |-> None,
                            diverged |-> ctx.ts.diverged],
                    !.gts1 = None, !.gts2 = None]
            ELSE ctx
        again(r, ctx) ==
            pull_with_timestamp([r.d EXCEPT !.ts_ctx = new_base(ctx)],
                                Append(seen, [st |-> r.st, val |-> r.val]))
        match(r) ==
            IF r.st # "Ok" THEN return(r, r.st, r.val, c)
            ELSE IF r.val.t = "LocalTimestamp1" /\ ~c.only_gts
            THEN assoc_packets_with_lts(r, with_lts(c.ts, r.val.ts, r.val.data_relation))
            ELSE IF r.val.t = "LocalTimestamp2" /\ ~c.only_gts
            THEN assoc_packets_with_lts(r, with_lts(c.ts, NatToBits(r.val.ts), "Sync"))
            ELSE IF r.val.t = "GlobalTimestamp1"
            THEN again(r, [c EXCEPT
                             !.gts1 = IF r.val.clkch THEN None ELSE Some(r.val.ts),
                             !.gts2 = IF r.val.wrap \/ r.val.clkch THEN None ELSE @])
            ELSE IF r.val.t = "GlobalTimestamp2"
            THEN again(r, [c EXCEPT !.gts2 = Some(r.val.ts)])
            ELSE IF r.val.t = "Overflow"
            THEN again(r, [c EXCEPT !.ts.diverged = TRUE,
                                    !.packets = Append(@, r.val)])
            ELSE IF ~c.only_gts
            THEN again(r, [c EXCEPT !.packets = Append(@, r.val)])
            ELSE return(r, "Ok", [timestamp |-> c.ts, packets |-> <<r.val>>], c)
    IN match(pull(d))

pull_with_timestamp(d, seen) ==
    LET c == d.ts_ctx
        return(r, st, val, ctx) ==
            [d |-> [r.d EXCEPT !.ts_ctx = ctx], st |-> st, val |-> val,
             seen |-> Append(seen, [st |-> r.st, val |-> r.val])]
        with_lts(ts, lts, data_relation) ==
            [ts EXCEPT !.delta = IF @ # None THEN Some(BTrunc(BAdd(@[1], lts), 64))
                                 ELSE Some(lts),
                       !.data_relation = Some(data_relation)]
        assoc_packets_with_lts(r, ts) ==
            return(r, "Ok", [timestamp |-> ts, packets |-> c.packets],
                   [c EXCEPT !.packets = <<>>, !.ts = ts])
        new_base(ctx) ==
            IF ctx.gts1 # None /\ ctx.gts2 # None
            THEN [ctx EXCEPT
                    !.ts = [base |-> Some(BTrunc(BOr(BShl(ctx.gts2[1], GTS2_TS_SHIFT),
                                                     ctx.gts1[1]), 64)),
                            delta |-> None, data_relation |-> None,
                            diverged |-> FALSE],
                    !.gts1 = None, !.gts2 = None]
            ELSE ctx
        again(r, ctx) ==
            pull_with_timestamp([r.d EXCEPT !.ts_ctx = new_base(ctx)],
                                Append(seen, [st |-> r.st, val |-> r.val]))
        match(r) ==
            IF r.st # "Ok" THEN return(r, r.st, r.val, c)
            ELSE IF r.val.t = "LocalTimestamp1" /\ ~c.only_gts
            THEN assoc_packets_with_lts(r, with_lts(c.ts, r.val.ts, r.val.data_relation))
            ELSE IF r.val.t = "LocalTimestamp2" /\ ~c.only_gts
            THEN assoc_packets_with_lts(r, with_lts(c.ts, NatToBits(r.val.ts), "Sync"))
            ELSE IF r.val.t = "GlobalTimestamp1"
            THEN again(r, [c EXCEPT
                             !.gts1 = IF r.val.clkch THEN None ELSE Some(r.val.ts),
                             !.gts2 = IF r.val.wrap \/ r.val.clkch THEN None ELSE @])
            ELSE IF r.val.t = "GlobalTimestamp2"
            THEN again(r, [c EXCEPT !.gts2 = Some(r.val.ts)])
            ELSE IF r.val.t = "Overflow"
            THEN again(r, [c EXCEPT !.ts.diverged = TRUE,
                                    !.packets = Append(@, r.val)])
            ELSE IF ~c.only_gts
            THEN again(r, [c EXCEPT !.packets = Append(@, r.val)])
            ELSE return(r, "Ok", [timestamp |-> c.ts, packets |-> <<r.val>>], c)
    IN match(pull(d))

(***************************************************************************)
(* is_sorted_increasing, the helper of the tests of iter.rs.  i is the     *)
(* position of the iterator `it` and prev the local of that name; a        *)
(* Timestamp is compared by its offset (Timestamp::partial_cmp).  The      *)
(* loop is entered as is_sorted_increasing(timestamps, 1, None).           *)
(***************************************************************************)
RECURSIVE is_sorted_increasing(_, _, _)
is_sorted_increasing(timestamps, i, prev) ==
    IF i > Len(timestamps) THEN TRUE
    ELSE IF prev = None THEN is_sorted_increasing(timestamps, i + 1, prev)
    ELSE IF BLt(timestamps[i].offset, prev[1].offset) THEN FALSE
    ELSE is_sorted_increasing(timestamps, i + 1, Some(timestamps[i]))

(***************************************************************************)
(* Input streams.  A Sync needs 47 zero bits, so a stream is a run of 0x00 *)
(* bytes followed by a body over a small alphabet of bytes:                *)
(*   00, 01 (Instrumentation, 1 byte), 04 (source header with ss = 00),    *)
(*   40 (LocalTimestamp2), 80, C0 (LocalTimestamp1),                       *)
(*   FF (invalid hardware discriminator).                                  *)
(***************************************************************************)
ZeroRuns == {0, 5, 6}
SampleBytes == {0, 1, 4, 64, 128, 192, 255}
Bodies(A) == UNION {[1..n -> A] : n \in 0..MaxBody}
Streams == {Zeros(z) \o b : z \in ZeroRuns, b \in Bodies(SampleBytes)}

\* the smaller set used where the reader pauses
PauseBytes == {0, 1, 128}
PauseStreams == {Zeros(z) \o b : z \in {0, 5}, b \in Bodies(PauseBytes)}

\* streams for Timestamps: up to MaxPkts packets out of
\*   70 (Overflow), FF (invalid hardware discriminator), 60 (LocalTimestamp2,
\*   ts = 6), D0 84 80 80 40 (LocalTimestamp1, ts = 2^27 + 4), 94 01
\*   (GlobalTimestamp1, ts = 1), B4 81 80 80 00 (GlobalTimestamp2, ts = 1)
TsPackets == {<<112>>, <<255>>, <<96>>, <<208, 132, 128, 128, 64>>,
              <<148, 1>>, <<180, 129, 128, 128, 0>>}
RECURSIVE Concat(_)
Concat(ss) == IF ss = <<>> THEN <<>> ELSE Head(ss) \o Concat(Tail(ss))
TsStreams == {Concat(ps) : ps \in UNION {[1..n -> TsPackets] : n \in 0..MaxPkts}}
ClockFrequencies == {16000000}
TsOptions == [clock_frequency : ClockFrequencies,
              lts_prescaler : {"EnabledDiv4"},
              expect_malformed : BOOLEAN]

\* streams that start with a packet: every header byte followed by the first
\* bytes of a payload
PayloadTemplates == {<<3, 15, 63, 255>>, <<0, 0, 0, 0>>, <<42, 1, 128, 7>>}
Payloads == {SubSeq(p, 1, n) : p \in PayloadTemplates, n \in 0..4}
HeaderStreams == {<<h>> \o p : h \in 0..255, p \in Payloads}
\* exception traces: header 0E (discriminator 1, two bytes), every low byte
\* of the exception number, and bit 8 and the function in the second byte
ExceptionStreams == {<<14, b0, b1>> : b0 \in 0..255, b1 \in {0, 1, 16, 17, 32, 33, 48, 49}}
\* continuation payloads after the headers of LocalTimestamp1,
\* GlobalTimestamp1 and GlobalTimestamp2: up to MaxCont bytes with bit 7 set,
\* a byte with bit 7 clear, and a byte more
ContHeaders == {192, 208, 224, 240, 148, 180}
ContBytes == {128, 132, 255}
LastBytes == {0, 1, 7, 32, 64, 127}
Repeat(b, k) == [i \in 1..k |-> b]
ContStreams ==
    {<<h>> \o Repeat(c, k) \o <<l, 112>> :
        h \in ContHeaders, c \in ContBytes, k \in 0..MaxCont, l \in LastBytes}
\* the packets of decode_local_timestamp_packets and of
\* decode_global_timestamp_packets (tests/singles.rs)
TestStreams == {<<192, 201, 1>>, <<192, 129, 129, 129, 1>>, <<148, 128, 160, 132, 96>>}
PacketStreams == HeaderStreams \cup ExceptionStreams \cup ContStreams \cup TestStreams

\* number of bits the decoder has taken out of the stream
Pos(rd, buf) == 8 * (Len(input) - Len(rd) - Len(pending)) - Len(buf)

Decoder(c) == [buffer |-> buffer, reader |-> reader, chunk |-> c,
               ignore_eof |-> ignore_eof, sync |-> sync, st |-> "Ok", val |-> 0,
               trace |-> <<>>]

\* no Timestamps has been built yet: its fields hold placeholders
NoTimestamps ==
    /\ options = [clock_frequency |-> 0, lts_prescaler |-> "Enabled", expect_malformed |-> FALSE]
    /\ current_offset = <<>>
    /\ gts = [lower |-> None, upper |-> None]
    /\ tlog = <<>>
    /\ decoder = <<>>

\* Decoder::new over a reader that holds the whole stream, ignore_eof clear
Init ==
    /\ input \in Streams
    /\ reader = input
    /\ pending = <<>>
    /\ buffer = <<>>
    /\ sync = None
    /\ ignore_eof = FALSE
    /\ log = <<>>
    /\ NoTimestamps

\* Decoder::new over a reader that holds only a prefix of the stream for now
InitPause ==
    /\ input \in PauseStreams
    /\ \E k \in 0..Len(input) :
          /\ reader = SubSeq(input, 1, k)
          /\ pending = SubSeq(input, k + 1, Len(input))
    /\ buffer = <<>>
    /\ sync = None
    /\ ignore_eof \in BOOLEAN
    /\ log = <<>>
    /\ NoTimestamps

\* Decoder::new over a reader that holds the whole stream, then
\* Decoder::timestamps(options), which is Timestamps::new
InitTs ==
    /\ input \in TsStreams
    /\ reader = input
    /\ pending = <<>>
    /\ buffer = <<>>
    /\ sync = None
    /\ ignore_eof = FALSE
    /\ log = <<>>
    /\ options \in TsOptions
    /\ current_offset = <<>>
    /\ gts = [lower |-> None, upper |-> None]
    /\ tlog = <<>>
    /\ decoder = <<>>

\* Decoder::new over a reader that holds a stream of PacketStreams
InitPacket ==
    /\ input \in PacketStreams
    /\ reader = input
    /\ pending = <<>>
    /\ buffer = <<>>
    /\ sync = None
    /\ ignore_eof = FALSE
    /\ log = <<>>
    /\ NoTimestamps

(***************************************************************************)
(* Singles::next.  The pull is one step; with ignore_eof set it does not   *)
(* return (is not a step) while the reader stays at end of input.  The log *)
(* records what the caller and the reader can observe of the pull: the     *)
(* item (st = "Eof" is the iterator's None), the stream positions before   *)
(* and after, Decoder.sync before and after, the number of bytes read, the *)
(* bytes pop_byte assembled, and how many bits had reached the reader.     *)
(***************************************************************************)
Singles_yield(r) ==
    /\ r.st # "Spin"
    /\ buffer' = r.buffer
    /\ reader' = r.reader
    /\ sync' = r.sync
    /\ log' = Append(log, [st |-> r.st, val |-> r.val,
                           s |-> Pos(reader, buffer),
                           e |-> Pos(r.reader, r.buffer),
                           sync0 |-> sync, sync1 |-> r.sync,
                           read |-> Len(reader) - Len(r.reader),
                           bytes |-> r.trace,
                           avail |-> 8 * (Len(input) - Len(pending))])

Singles_next(c) ==
    /\ Len(log) < MaxPulls
    /\ Singles_yield(next_single(Decoder(c)))
    /\ UNCHANGED <<input, pending, ignore_eof, options, current_offset, gts, tlog, decoder>>

\* the environment: n more bytes reach a reader that was at end of input
\* (bytes that arrive before the reader is drained cannot be told from bytes
\* that were there from the start)
Supply(n) ==
    /\ reader = <<>>
    /\ n <= Len(pending)
    /\ reader' = reader \o SubSeq(pending, 1, n)
    /\ pending' = SubSeq(pending, n + 1, Len(pending))
    /\ UNCHANGED <<input, buffer, sync, ignore_eof, log, options, current_offset, gts, tlog, decoder>>

(***************************************************************************)
(* Timestamps::next.  The log records the item (st = "Eof" is None, st =   *)
(* "Malformed" is Some(Err(..)), st = "Ok" is Some(Ok(batch))), what       *)
(* next_single returned during the pull, and current_offset and gts before *)
(* and after.                                                              *)
(***************************************************************************)
Timestamps_yield(r) ==
    /\ r.st # "Spin"
    /\ buffer' = r.d.buffer
    /\ reader' = r.d.reader
    /\ sync' = r.d.sync
    /\ current_offset' = r.current_offset
    /\ gts' = r.gts
    /\ tlog' = Append(tlog, [st |-> r.st, val |-> r.val, singles |-> r.singles,
                             base |-> r.base,
                             offset0 |-> current_offset, offset1 |-> r.current_offset,
                             gts0 |-> gts, gts1 |-> r.gts])

\* the caller pulls until the iterator yields None
Ended == IF tlog = <<>> THEN FALSE ELSE tlog[Len(tlog)].st = "Eof"
Timestamps_next(c) ==
    /\ Len(tlog) < MaxPulls
    /\ ~Ended
    /\ Timestamps_yield(next_timestamped(Decoder(c), current_offset, gts, options))
    /\ UNCHANGED <<input, pending, ignore_eof, log, options, decoder>>

Next == \E c \in 1..MaxChunk : Singles_next(c)

Spec == Init /\ [][Next]_vars

NextPause ==
    \/ \E c \in 1..MaxChunk : Singles_next(c)
    \/ \E n \in 1..MaxChunk : Supply(n)

SpecPause == InitPause /\ [][NextPause]_vars

(***************************************************************************)
(* The packets that have one wire encoding, and that encoding: the header  *)
(* of the packet's row of decode_header, with ss for the payload's length, *)
(* then the payload bytes.                                                 *)
(***************************************************************************)
Words == {<<>>, <<1>>, <<0, 0, 0, 1, 1, 1, 1, 0, 0, 1, 1, 0, 1, 0, 1, 0, 0, 0, 1, 0, 1, 1, 0, 0, 0, 1, 0, 0, 1>>,
          [i \in 1..32 |-> 1]}
SizedPayloads == {SubSeq(p, 1, n) : p \in PayloadTemplates, n \in {1, 2, 4}}
RoundTripValues ==
    {[t |-> "Overflow"]}
    \cup {[t |-> "Extension", page |-> page] : page \in 0..7}
    \cup {[t |-> "LocalTimestamp2", ts |-> ts] : ts \in 1..6}
    \cup {[t |-> "Instrumentation", port |-> port, payload |-> p] :
              port \in 0..31, p \in SizedPayloads}
    \cup {[t |-> "DataTracePC", comparator |-> c, pc |-> w] : c \in 0..3, w \in Words}
    \cup {[t |-> "DataTraceAddress", comparator |-> c, data |-> SubSeq(p, 1, 2)] :
              c \in 0..3, p \in PayloadTemplates}
    \cup {[t |-> "DataTraceValue", comparator |-> c, access_type |-> a, value |-> p] :
              c \in 0..3, a \in {"Read", "Write"}, p \in SizedPayloads}
    \cup {[t |-> "PCSample", pc |-> Some(w)] : w \in Words}
    \cup {[t |-> "EventCounterWrap", cyc |-> b[1], fold |-> b[2], lsu |-> b[3],
           sleep |-> b[4], exc |-> b[5], cpi |-> b[6]] : b \in [1..6 -> BOOLEAN]}

\* ss of a payload of 1, 2 or 4 bytes
SsOf(p) == IF Len(p) = 1 THEN 1 ELSE IF Len(p) = 2 THEN 2 ELSE 3
\* the four bytes of a u32, the least significant first
WordByte(w, j) ==
    BitAt(w, 8 * j + 1) + 2 * BitAt(w, 8 * j + 2) + 4 * BitAt(w, 8 * j + 3)
    + 8 * BitAt(w, 8 * j + 4) + 16 * BitAt(w, 8 * j + 5) + 32 * BitAt(w, 8 * j + 6)
    + 64 * BitAt(w, 8 * j + 7) + 128 * BitAt(w, 8 * j + 8)
WordBytes(w) == [j \in 1..4 |-> WordByte(w, j - 1)]
Flag(b, k) == IF b THEN 2 ^ k ELSE 0
\* the header aaaa_a1ss of a hardware source packet
HardwareHeader(disc, p) == 8 * disc + 4 + SsOf(p)
HardwareEncoding(disc, p) == <<HardwareHeader(disc, p)>> \o p
Encoding(v) ==
    IF v.t = "Overflow" THEN <<112>>
    ELSE IF v.t = "Extension" THEN <<16 * v.page + 8>>
    ELSE IF v.t = "LocalTimestamp2" THEN <<16 * v.ts>>
    ELSE IF v.t = "Instrumentation" THEN <<8 * v.port + SsOf(v.payload)>> \o v.payload
    ELSE IF v.t = "DataTracePC" THEN HardwareEncoding(8 + 2 * v.comparator, WordBytes(v.pc))
    ELSE IF v.t = "DataTraceAddress" THEN HardwareEncoding(9 + 2 * v.comparator, v.data)
    ELSE IF v.t = "DataTraceValue"
    THEN HardwareEncoding(16 + 2 * v.comparator + (IF v.access_type = "Read" THEN 0 ELSE 1),
                          v.value)
    ELSE IF v.t = "PCSample" THEN HardwareEncoding(2, WordBytes(v.pc[1]))
    ELSE HardwareEncoding(0, <<Flag(v.cpi, 0) + Flag(v.exc, 1) + Flag(v.sleep, 2)
                                + Flag(v.lsu, 3) + Flag(v.fold, 4) + Flag(v.cyc, 5)>>)
RoundTripStreams == {Encoding(v) : v \in RoundTripValues}

\* a fresh decoder over the encoding of one packet
InitRound ==
    /\ input \in RoundTripStreams
    /\ reader = input
    /\ pending = <<>>
    /\ buffer = <<>>
    /\ sync = None
    /\ ignore_eof = FALSE
    /\ log = <<>>
    /\ NoTimestamps

(***************************************************************************)
(* The life of a decoder: Decoder::new over a reader that holds a prefix   *)
(* of the stream, pulls of Singles, then Decoder::timestamps(options) and  *)
(* pulls of Timestamps, while more bytes reach the reader.  The call of    *)
(* Decoder::timestamps is recorded in tlog: st = "New" with the fields as  *)
(* constructed in offset1 and gts1, or st = "Panic", after which nothing   *)
(* runs.                                                                   *)
(*   01 07 (Instrumentation), 60 (LocalTimestamp2), C0 81 01               *)
(*   (LocalTimestamp1)                                                     *)
(***************************************************************************)
LifePackets == {<<1, 7>>, <<96>>, <<192, 129, 1>>}
LifeStreams == {Concat(ps) : ps \in UNION {[1..n -> LifePackets] : n \in 0..2}}
LifeOptions == [clock_frequency : ClockFrequencies,
                lts_prescaler : {"Disabled", "Enabled", "EnabledDiv4",
                                 "EnabledDiv16", "EnabledDiv64"},
                expect_malformed : {FALSE}]
InitLife ==
    /\ input \in LifeStreams
    /\ \E k \in 0..Len(input) :
          /\ reader = SubSeq(input, 1, k)
          /\ pending = SubSeq(input, k + 1, Len(input))
    /\ buffer = <<>>
    /\ sync = None
    /\ ignore_eof \in BOOLEAN
    /\ log = <<>>
    /\ NoTimestamps

Constructed == tlog # <<>> /\ tlog[1].st = "New"
Panicked == tlog # <<>> /\ tlog[1].st = "Panic"
Timestamps_built(r) ==
    /\ options' = (IF r.st = "New" THEN r.options ELSE options)
    /\ current_offset' = (IF r.st = "New" THEN r.current_offset ELSE current_offset)
    /\ gts' = (IF r.st = "New" THEN r.gts ELSE gts)
    /\ tlog' = <<[st |-> r.st, val |-> r.options, singles |-> <<>>,
                  base |-> current_offset,
                  offset0 |-> current_offset,
                  offset1 |-> (IF r.st = "New" THEN r.current_offset ELSE current_offset),
                  gts0 |-> gts,
                  gts1 |-> (IF r.st = "New" THEN r.gts ELSE gts)]>>
Decoder_timestamps(opts) ==
    /\ tlog = <<>>
    /\ Timestamps_built(Timestamps_new(opts))
    /\ UNCHANGED <<input, reader, pending, buffer, sync, ignore_eof, log, decoder>>

NextLife ==
    \/ tlog = <<>> /\ \E c \in 1..MaxChunk : Singles_next(c)
    \/ \E opts \in LifeOptions : Decoder_timestamps(opts)
    \/ Constructed /\ \E c \in 1..MaxChunk : Timestamps_next(c)
    \/ ~Panicked /\ \E n \in 1..MaxChunk : Supply(n)

SpecLife == InitLife /\ [][NextLife]_vars

\* Singles over the packet streams, the reader filling the buffer of every read
NextPacket == Singles_next(ReadBufLen)

SpecPacket == InitPacket /\ [][NextPacket]_vars

SpecRound == InitRound /\ [][NextPacket]_vars

\* Timestamps over a reader that fills the buffer of every read
NextTs == Timestamps_next(ReadBufLen)

SpecTs == InitTs /\ [][NextTs]_vars

(***************************************************************************)
(* Timestamps over streams of global timestamps, up to MaxGts out of       *)
(*   60 (LocalTimestamp2), 94 00, 94 01 (GlobalTimestamp1, ts = 0, 1),     *)
(*   94 41, 94 21, 94 61 (ts = 1 with wrap, clkch, both),                  *)
(*   B4 81 80 80 00 (GlobalTimestamp2, ts = 1), and the group              *)
(*   94 AA 00  B4 81 80 80 00  60 (ts = 42, ts = 1, a local timestamp)     *)
(***************************************************************************)
GtsPackets == {<<96>>, <<148, 0>>, <<148, 1>>, <<148, 65>>, <<148, 33>>, <<148, 97>>,
               <<180, 129, 128, 128, 0>>,
               <<148, 170, 0, 180, 129, 128, 128, 0, 96>>}
GtsStreams == {Concat(ps) : ps \in UNION {[1..n -> GtsPackets] : n \in 0..MaxGts}}
(***************************************************************************)
(* Timestamps over a reader that runs dry: the reader holds a prefix of    *)
(* the stream, the caller pulls, more bytes reach the reader, and the      *)
(* caller pulls again, also after the iterator yielded None.  Streams of   *)
(* up to three packets out of 70 (Overflow), FF (invalid hardware          *)
(* discriminator), 60 (LocalTimestamp2), 94 01 (GlobalTimestamp1) and      *)
(* B4 81 80 80 00 (GlobalTimestamp2).                                      *)
(***************************************************************************)
InitResume ==
    /\ input \in {Concat(ps) :
                    ps \in UNION {[1..n -> {<<112>>, <<255>>, <<96>>, <<148, 1>>,
                                            <<180, 129, 128, 128, 0>>}] : n \in 0..3}}
    /\ \E k \in 0..Len(input) :
          /\ reader = SubSeq(input, 1, k)
          /\ pending = SubSeq(input, k + 1, Len(input))
    /\ buffer = <<>>
    /\ sync = None
    /\ ignore_eof = FALSE
    /\ log = <<>>
    /\ options \in TsOptions
    /\ current_offset = <<>>
    /\ gts = [lower |-> None, upper |-> None]
    /\ tlog = <<>>
    /\ decoder = <<>>

NextResume ==
    \/ /\ Len(tlog) < MaxPulls
       /\ Ended => reader # <<>>
       /\ Timestamps_yield(next_timestamped(Decoder(ReadBufLen), current_offset, gts, options))
       /\ UNCHANGED <<input, pending, ignore_eof, log, options, decoder>>
    \/ \E n \in 1..MaxChunk : Supply(n)

SpecResume == InitResume /\ [][NextResume]_vars
InitGts ==
    /\ input \in GtsStreams
    /\ reader = input
    /\ pending = <<>>
    /\ buffer = <<>>
    /\ sync = None
    /\ ignore_eof = FALSE
    /\ log = <<>>
    /\ options = [clock_frequency |-> 16000000, lts_prescaler |-> "EnabledDiv4",
                  expect_malformed |-> FALSE]
    /\ current_offset = <<>>
    /\ gts = [lower |-> None, upper |-> None]
    /\ tlog = <<>>
    /\ decoder = <<>>

SpecGts == InitGts /\ [][NextTs]_vars

(***************************************************************************)
(* The push-style decoder in use: Decoder::new and only_global_timestamps, *)
(* then the caller pushes the bytes of a stream piece by piece.  A caller  *)
(* of pull calls it after each push until it returns Ok(None) and leaves   *)
(* only_gts clear, which pull does not read; a caller of                   *)
(* pull_with_timestamp pushes once.  input holds every byte the caller has *)
(* to push and pending those not yet pushed; log has one record per pull   *)
(* and tlog one per pull_with_timestamp.                                   *)
(***************************************************************************)
InitPush ==
    /\ input \in
         {Zeros(z) \o <<b>> \o t : z \in {1, 5, 6}, b \in {1, 128}, t \in {<<>>, <<112>>}}
         \cup {<<255, 112>>, <<4, 112>>, <<14, 0, 0, 112, 112>>, <<21, 1, 112, 112>>,
               <<180, 1, 112>>, <<180, 129, 1, 0, 112>>, <<1, 7, 112>>, <<192, 137, 1>>}
         \cup {Concat(ps) \o <<96>> :
                 ps \in UNION {[1..n -> {<<112>>, <<96>>, <<148, 65>>,
                                         <<180, 129, 128, 128, 0>>,
                                         <<148, 1, 180, 129, 128, 128, 0>>}] : n \in 0..3}}
    /\ pending = input
    /\ reader = <<>>
    /\ buffer = <<>>
    /\ sync = None
    /\ ignore_eof = FALSE
    /\ log = <<>>
    /\ options = [clock_frequency |-> 0, lts_prescaler |-> "Enabled", expect_malformed |-> FALSE]
    /\ current_offset = <<>>
    /\ gts = [lower |-> None, upper |-> None]
    /\ tlog = <<>>
    /\ \E only_gts \in BOOLEAN :
          decoder = [incoming |-> <<>>,
                     state |-> [t |-> "Header"],
                     ts_ctx |-> [packets |-> <<>>, gts1 |-> None, gts2 |-> None,
                                 ts |-> [base |-> None, delta |-> None,
                                         data_relation |-> None, diverged |-> FALSE],
                                 only_gts |-> only_gts]]

NextPush ==
    \/ \E n \in (1..MaxChunk) \cup {Len(pending)} :
          /\ 1 <= n /\ n <= Len(pending)
          /\ tlog = <<>>
          /\ IF log = <<>> THEN pending = input ELSE log[Len(log)].st = "None"
          /\ decoder' = push(decoder, SubSeq(pending, 1, n))
          /\ pending' = SubSeq(pending, n + 1, Len(pending))
          /\ UNCHANGED <<input, reader, buffer, sync, ignore_eof, log, options,
                         current_offset, gts, tlog>>
    \/ /\ tlog = <<>>
       /\ pending # input
       /\ ~decoder.ts_ctx.only_gts
       /\ Len(log) < MaxPulls
       /\ IF log = <<>> THEN TRUE
          ELSE log[Len(log)].st # "None" \/ log[Len(log)].pending # pending
       /\ LET r == pull(decoder)
          IN /\ decoder' = r.d
             /\ log' = Append(log, [st |-> r.st, val |-> r.val,
                                    state0 |-> decoder.state, state1 |-> r.d.state,
                                    pending |-> pending])
       /\ UNCHANGED <<input, reader, pending, buffer, sync, ignore_eof, options,
                      current_offset, gts, tlog>>
    \/ /\ log = <<>>
       /\ pending # input
       /\ Len(tlog) < MaxPulls
       /\ IF tlog = <<>> THEN TRUE ELSE tlog[Len(tlog)].st # "None"
       /\ LET r == pull_with_timestamp(decoder, <<>>)
          IN /\ decoder' = r.d
             /\ tlog' = Append(tlog, [st |-> r.st, val |-> r.val, seen |-> r.seen,
                                      ctx0 |-> decoder.ts_ctx, ctx1 |-> r.d.ts_ctx])
       /\ UNCHANGED <<input, reader, pending, buffer, sync, ignore_eof, log, options,
                      current_offset, gts>>

SpecPush == InitPush /\ [][NextPush]_vars

(***************************************************************************)
(* The stream as the wire carries it, and a decoder that is handed a bit   *)
(* sequence in one piece.                                                  *)
(***************************************************************************)
AllBits == FromVec(input)

\* the byte made of the 8 stream bits after the first p bits, first bit lowest
FlatByte(bits, p) ==
    bits[p + 1] + 2 * bits[p + 2] + 4 * bits[p + 3] + 8 * bits[p + 4]
    + 16 * bits[p + 5] + 32 * bits[p + 6] + 64 * bits[p + 7] + 128 * bits[p + 8]

FreshDecoder(bits) ==
    [buffer |-> Reverse(bits), reader |-> <<>>, chunk |-> 1, ignore_eof |-> FALSE,
     sync |-> None, st |-> "Ok", val |-> 0, trace |-> <<>>]

\* the first n items a fresh decoder yields on the bits (fewer at end of input)
RECURSIVE FreshRun(_, _, _)
FreshYield(r, n, acc) ==
    IF r.st = "Eof" THEN acc
    ELSE FreshRun(r, n - 1, Append(acc, [st |-> r.st, val |-> r.val]))
FreshRun(d, n, acc) == IF n = 0 THEN acc ELSE FreshYield(next_single(d), n, acc)
FreshItems(bits, n) == FreshRun(FreshDecoder(bits), n, <<>>)

Item(l) == [st |-> l.st, val |-> l.val]
Yielded(i) == log[i].st # "Eof"
\* the items of pulls lo..hi that yielded one
RECURSIVE ItemsOf(_, _)
ItemsOf(lo, hi) ==
    IF lo > hi THEN <<>>
    ELSE (IF Yielded(lo) THEN <<Item(log[lo])>> ELSE <<>>) \o ItemsOf(lo + 1, hi)

IsPrefix(a, b) == Len(a) <= Len(b) /\ \A i \in 1..Len(a) : a[i] = b[i]
\* the pulls lo..hi yielded the items of fresh, all of them if one of the
\* pulls reported the end of the input
SameItems(lo, hi, items, fresh) ==
    /\ IsPrefix(items, fresh)
    /\ (\E i \in lo..hi : ~Yielded(i)) => Len(fresh) = Len(items)
\* what the pulls lo..hi yielded is what a fresh decoder yields on the bits
SameAsFresh(lo, hi, bits) ==
    SameItems(lo, hi, ItemsOf(lo, hi), FreshItems(bits, hi - lo + 1))

\* C1: the pulls take consecutive, non-overlapping stretches of the stream, each
\* yielded item takes at least one bit, and the items come out in the order
\* their encodings begin in the stream: they are the items of the stream read
\* in one piece.
C1_Ordering ==
    /\ \A i \in 1..Len(log) :
          /\ log[i].s = (IF i = 1 THEN 0 ELSE log[i - 1].e)
          /\ log[i].s <= log[i].e
          /\ Yielded(i) => log[i].s < log[i].e
    /\ SameAsFresh(1, Len(log), AllBits)

C1_Witness ==
    \E i \in 1..Len(log), j \in 1..Len(log) :
        /\ i < j /\ Yielded(i) /\ Yielded(j)
        /\ log[i].val # log[j].val
        /\ log[j].read > 0 /\ Len(log[j].bytes) > 1

\* C2: a pull that counts the zeros of a Sync ends right after the first 1
\* bit; with z the zero bits counted since the 0x00 header began, it yields
\* Sync when z >= 47 and InvalidSync(z) when z < 47.
SyncPull(i) ==
    /\ Yielded(i)
    /\ \/ log[i].sync0 # None
       \/ log[i].bytes = <<0>>
ZerosCounted(i) ==
    (IF log[i].sync0 = None THEN 0 ELSE log[i].sync0[1]) + (log[i].e - log[i].s - 1)
SyncThresholdOn(bits) ==
    \A i \in 1..Len(log) :
        /\ (Yielded(i) /\ log[i].sync0 = None /\ FlatByte(bits, log[i].s) = 0)
              => log[i].bytes = <<0>>
        /\ SyncPull(i) =>
              /\ bits[log[i].e] = 1
              /\ \A p \in (log[i].s + 1)..(log[i].e - 1) : bits[p] = 0
              /\ ZerosCounted(i) >= 47 => Item(log[i]) = [st |-> "Ok", val |-> [t |-> "Sync"]]
              /\ ZerosCounted(i) < 47 =>
                    Item(log[i]) = [st |-> "Malformed",
                                    val |-> [t |-> "InvalidSync", zeros |-> ZerosCounted(i)]]
C2_SyncThreshold == SyncThresholdOn(AllBits)

C2_Witness ==
    \E i \in 1..Len(log) :
        Item(log[i]) = [st |-> "Malformed", val |-> [t |-> "InvalidSync", zeros |-> 46]]

\* C3: a Sync ends right after its 1 bit, wherever in an input byte that is,
\* and every byte assembled by the pulls that follow is made, lowest bit
\* first, of the next 8 stream bits, whatever the sizes of the reads.
IsSync(i) == Item(log[i]) = [st |-> "Ok", val |-> [t |-> "Sync"]]
NoSnapToByteOn(bits) ==
    \A j \in 1..Len(log) :
        IsSync(j) =>
            /\ bits[log[j].e] = 1
            /\ \A i \in (j + 1)..Len(log) :
                  /\ log[i].s = log[i - 1].e
                  /\ log[i].sync0 = None =>
                        \A k \in 1..Len(log[i].bytes) :
                            log[i].bytes[k] = FlatByte(bits, log[i].s + 8 * (k - 1))
C3_NoSnapToByte == NoSnapToByteOn(AllBits)

C3_Witness ==
    \E j \in 1..Len(log) :
        /\ IsSync(j)
        /\ log[j].e % 8 # 0
        /\ j < Len(log)
        /\ Yielded(j + 1)
        /\ Len(log[j + 1].bytes) >= 2
        /\ log[j + 1].read >= 2

\* C4: when a pull reports end of input after the header byte of a packet was
\* taken, and the rest of the packet has reached the reader by the next pull,
\* the next pull yields that packet.
MidPacket(i) ==
    /\ log[i].st = "Eof"
    /\ log[i].sync0 = None /\ log[i].sync1 = None
    /\ Len(log[i].bytes) >= 1
InProgress(bits, i) == FreshItems(SubSeq(bits, log[i].s + 1, log[i + 1].avail), 1)
Resumes(i, expected) == expected # <<>> => Item(log[i + 1]) = expected[1]
TruncatedResumesOn(bits) ==
    \A i \in 1..(Len(log) - 1) : MidPacket(i) => Resumes(i, InProgress(bits, i))
C4_TruncatedResumes == TruncatedResumesOn(AllBits)

\* C5: a pull that returns a malformed packet leaves Decoder.sync = None, and
\* the pulls after it yield what a fresh decoder yields on the bits not yet
\* taken.
FramingResetOn(bits) ==
    \A i \in 1..Len(log) :
        log[i].st = "Malformed" =>
            /\ log[i].sync1 = None
            /\ SameAsFresh(i + 1, Len(log), SubSeq(bits, log[i].e + 1, Len(bits)))
C5_FramingReset == FramingResetOn(AllBits)

C5_Witness ==
    \E i \in 1..Len(log), j \in 1..Len(log) :
        /\ i < j
        /\ log[i].st = "Malformed" /\ log[i].val.t = "InvalidSync"
        /\ log[i].e % 8 # 0
        /\ log[j].st = "Ok"

(***************************************************************************)
(* Timestamps: what the pulls recorded in tlog yielded.                    *)
(***************************************************************************)
IsLocalTimestamp(p) == p.t \in {"LocalTimestamp1", "LocalTimestamp2"}
IsGlobalTimestamp(p) == p.t \in {"GlobalTimestamp1", "GlobalTimestamp2"}
IsTimestamp(p) == IsLocalTimestamp(p) \/ IsGlobalTimestamp(p)
IsData(s) == s.st = "Ok" /\ ~IsTimestamp(s.val)
IsMalformed(s) == s.st = "Malformed"
ValuesOf(ss) == [k \in 1..Len(ss) |-> ss[k].val]
DataOf(ss) == ValuesOf(SelectSeq(ss, IsData))
MalformedOf(ss) == ValuesOf(SelectSeq(ss, IsMalformed))
IsBatch(i) == tlog[i].st = "Ok"
BatchOffset(i) == tlog[i].val.timestamp.offset
\* the local timestamp that closed batch i
Closing(i) == tlog[i].singles[Len(tlog[i].singles)].val

\* what next_single returned in the pulls from..to
RECURSIVE SinglesOfPulls(_, _)
SinglesOfPulls(from, to) ==
    IF from > to THEN <<>> ELSE SinglesOfPulls(from, to - 1) \o tlog[to].singles
\* the last batch before pull j, 0 if there is none
PreviousBatch(j) == Max(0, CHOOSE i \in 0..(j - 1) :
                               /\ i > 0 => IsBatch(i)
                               /\ \A k \in (i + 1)..(j - 1) : ~IsBatch(k))

\* the number of nanoseconds in `ticks` ticks of a clock of freq Hz, and its
\* ceiling, in exact arithmetic: ticks * 10^9 / freq with 10^9 = 5^9 * 2^9
CeilOf(qr) == IF qr.r = 0 THEN qr.q ELSE BAdd(qr.q, <<1>>)
ExactNanos(ticks, freq) == CeilOf(BDiv(BShl(BMul(ticks, 1953125), 9), freq))
TicksOf(p) ==
    BMul(IF p.t = "LocalTimestamp2" THEN NatToBits(p.ts) ELSE p.ts,
         prescale_of(Some(options.lts_prescaler)))
ExactDelta(p) == ExactNanos(TicksOf(p), options.clock_frequency)

\* C6: the offset of each emitted batch is greater than or equal to the
\* offset of every batch emitted before it.
C6_MonotoneOffsets ==
    \A i \in 1..Len(tlog), j \in 1..Len(tlog) :
        (i < j /\ IsBatch(i) /\ IsBatch(j)) => BLeq(BatchOffset(i), BatchOffset(j))

\* C7: a pull emits a batch exactly when it decodes a local timestamp, which
\* ends the pull; the batch's packets are the non-timestamp packets decoded
\* since the previous emitted batch, in wire order, and hold no timestamp
\* packet.
OneBatchPerLocalTimestamp(i) ==
    \A k \in 1..Len(tlog[i].singles) :
        (tlog[i].singles[k].st = "Ok" /\ IsLocalTimestamp(tlog[i].singles[k].val))
            <=> (IsBatch(i) /\ k = Len(tlog[i].singles))
C7_BatchComposition ==
    \A j \in 1..Len(tlog) :
        /\ OneBatchPerLocalTimestamp(j)
        /\ IsBatch(j) =>
              /\ tlog[j].val.packets = DataOf(SinglesOfPulls(PreviousBatch(j) + 1, j))
              /\ \A k \in 1..Len(tlog[j].val.packets) : ~IsTimestamp(tlog[j].val.packets[k])

\* C8: when the last global timestamp packet of a pull is a GlobalTimestamp2,
\* or a GlobalTimestamp1 with wrap and clkch clear, and both halves are
\* present, current_offset is the duration of (upper << 26) | lower ticks
\* whatever it was before, and a batch that the pull emits has that duration
\* plus the ceiling of the closing local timestamp's delta as its offset.
GlobalOf(ss) == SelectSeq(ss, LAMBDA s : s.st = "Ok" /\ IsGlobalTimestamp(s.val))
Applies(p) == p.t = "GlobalTimestamp2" \/ (~p.wrap /\ ~p.clkch)
CompletesGts(i) ==
    /\ GlobalOf(tlog[i].singles) # <<>>
    /\ Applies(GlobalOf(tlog[i].singles)[Len(GlobalOf(tlog[i].singles))].val)
    /\ tlog[i].gts1.lower # None /\ tlog[i].gts1.upper # None
MergedOf(g) == BOr(BTrunc(BShl(g.upper[1], 26), 64), g.lower[1])
GtsAssigned(i, duration) ==
    IF IsBatch(i)
    THEN /\ tlog[i].base = duration
         /\ BatchOffset(i) = BAdd(duration, ExactDelta(Closing(i)))
    ELSE tlog[i].offset1 = duration
C8_GtsAssigns ==
    \A i \in 1..Len(tlog) :
        CompletesGts(i) =>
            GtsAssigned(i, ExactNanos(MergedOf(tlog[i].gts1), options.clock_frequency))

\* C9: a local timestamp adds exactly ceil(ts * prescaler * 10^9 /
\* clock_frequency) nanoseconds to current_offset; the batch carries the new
\* current_offset, and the data relation of a LocalTimestamp1 or Sync for a
\* LocalTimestamp2.
RelationOf(p) == IF p.t = "LocalTimestamp1" THEN p.data_relation ELSE "Sync"
C9_LocalDelta ==
    \A i \in 1..Len(tlog) :
        IsBatch(i) =>
            /\ tlog[i].offset1 = BAdd(tlog[i].base, ExactDelta(Closing(i)))
            /\ BatchOffset(i) = tlog[i].offset1
            /\ tlog[i].val.timestamp.data_relation = RelationOf(Closing(i))

\* C10: with expect_malformed set no pull returns a malformed packet, and a
\* batch holds every malformed packet of its pull in malformed_packets and
\* every data packet decoded before and after them in packets; with
\* expect_malformed clear a malformed packet ends the pull, which returns it,
\* and malformed_packets of every batch is empty.
MalformedCollected(e) ==
    /\ e.st # "Malformed"
    /\ e.st = "Ok" =>
          /\ e.val.malformed_packets = MalformedOf(e.singles)
          /\ e.val.packets = DataOf(e.singles)
MalformedReturned(e) ==
    /\ \A k \in 1..Len(e.singles) :
           IsMalformed(e.singles[k]) =>
               /\ k = Len(e.singles)
               /\ e.st = "Malformed"
               /\ e.val = e.singles[k].val
    /\ e.st = "Ok" => e.val.malformed_packets = <<>>
C10_ExpectMalformed ==
    \A i \in 1..Len(tlog) :
        IF options.expect_malformed
        THEN MalformedCollected(tlog[i])
        ELSE MalformedReturned(tlog[i])

C10_Witness ==
    /\ options.expect_malformed
    /\ \E i \in 1..Len(tlog) :
           /\ IsBatch(i)
           /\ \E a, b, c \in 1..Len(tlog[i].singles) :
                  /\ a < b /\ b < c
                  /\ IsData(tlog[i].singles[a])
                  /\ IsMalformed(tlog[i].singles[b])
                  /\ IsData(tlog[i].singles[c])

(***************************************************************************)
(* Single packets: the header a pull started with is the first byte that   *)
(* pop_byte assembled during the pull.                                     *)
(***************************************************************************)
HasHeader(l) == l.bytes # <<>>
HeaderOf(l) == l.bytes[1]
PayloadOf(l) == SubSeq(l.bytes, 2, Len(l.bytes))

\* the pattern table: a row matches a header h when the bits of h selected
\* by `care` are those of `bits`
ByteAnd(a, b) ==
    Field(a, 0, 0) * Field(b, 0, 0) + 2 * Field(a, 1, 1) * Field(b, 1, 1)
    + 4 * Field(a, 2, 2) * Field(b, 2, 2) + 8 * Field(a, 3, 3) * Field(b, 3, 3)
    + 16 * Field(a, 4, 4) * Field(b, 4, 4) + 32 * Field(a, 5, 5) * Field(b, 5, 5)
    + 64 * Field(a, 6, 6) * Field(b, 6, 6) + 128 * Field(a, 7, 7) * Field(b, 7, 7)
PatternTable ==
    << [row |-> "Sync",            care |-> 255, bits |-> 0],     \* 0000_0000
       [row |-> "Overflow",        care |-> 255, bits |-> 112],   \* 0111_0000
       [row |-> "LocalTimestamp",  care |-> 207, bits |-> 192],   \* 11rr_0000
       [row |-> "LocalTimestamp2", care |-> 143, bits |-> 0],     \* 0ttt_0000
       [row |-> "GlobalTimestamp1", care |-> 255, bits |-> 148],  \* 1001_0100
       [row |-> "GlobalTimestamp2", care |-> 255, bits |-> 180],  \* 1011_0100
       [row |-> "Extension",       care |-> 143, bits |-> 8],     \* 0ppp_1000
       [row |-> "Instrumentation", care |-> 4,   bits |-> 0],     \* aaaa_a0ss
       [row |-> "HardwareSource",  care |-> 4,   bits |-> 4] >>   \* aaaa_a1ss
RowMatches(k, h) == ByteAnd(h, PatternTable[k].care) = PatternTable[k].bits
FirstRow(h) ==
    IF \E k \in 1..Len(PatternTable) : RowMatches(k, h)
    THEN PatternTable[CHOOSE k \in 1..Len(PatternTable) :
                          /\ RowMatches(k, h)
                          /\ \A j \in 1..(k - 1) : ~RowMatches(j, h)].row
    ELSE "None"
Relations == <<"Sync", "UnknownDelay", "AssocEventDelay", "UnknownAssocEventDelay">>
\* what the row says of the result r of decode_header(h)
RowResult(row, h, r) ==
    IF row = "Sync" THEN r = [k |-> "Stub", v |-> [t |-> "Sync", count |-> 8]]
    ELSE IF row = "Overflow" THEN r = [k |-> "Packet", v |-> [t |-> "Overflow"]]
    ELSE IF row = "LocalTimestamp"
    THEN r = [k |-> "Stub", v |-> [t |-> "LocalTimestamp",
                                   data_relation |-> Relations[((h \div 16) % 4) + 1]]]
    ELSE IF row = "LocalTimestamp2"
    THEN /\ r = [k |-> "Packet", v |-> [t |-> "LocalTimestamp2", ts |-> (h \div 16) % 8]]
         /\ r.v.ts \in 1..6
    ELSE IF row \in {"GlobalTimestamp1", "GlobalTimestamp2"}
    THEN r = [k |-> "Stub", v |-> [t |-> row]]
    ELSE IF row = "Extension"
    THEN r = [k |-> "Packet", v |-> [t |-> "Extension", page |-> (h \div 16) % 8]]
    ELSE IF row = "Instrumentation"
    THEN \/ r.k = "Stub" /\ r.v.t = row /\ r.v.port = h \div 8
         \/ r.k = "Err" /\ r.v.t = "InvalidSourcePayload"
    ELSE IF row = "HardwareSource"
    THEN \/ r.k = "Stub" /\ r.v.t = row /\ r.v.disc_id = h \div 8
         \/ r.k = "Err" /\ r.v.t \in {"InvalidSourcePayload", "InvalidHardwareDisc"}
    ELSE r = [k |-> "Err", v |-> [t |-> "InvalidHeader", header |-> h]]
\* what the pull yields when the header is a whole packet or an error
HeaderYield(l, r) ==
    /\ r.k = "Packet" => (l.st = "Ok" /\ l.val = r.v)
    /\ r.k = "Err" => (l.st = "Malformed" /\ l.val = r.v)

\* the pull made last; every pull of a behaviour is the last one in the state
\* it leads to
LastPull == log[Len(log)]

\* C11: decode_header gives every header byte the result of the first row of
\* the pattern table that matches it, InvalidHeader if none does, and a
\* header that is a packet or an error by itself is what the pull yields.
HeaderClassified(l, h, r) == RowResult(FirstRow(h), h, r) /\ HeaderYield(l, r)
HeaderTableOn(l) ==
    HasHeader(l) => HeaderClassified(l, HeaderOf(l), decode_header(HeaderOf(l)))
C11_HeaderTable == log # <<>> => HeaderTableOn(LastPull)

C11_Witness ==
    \E i \in 1..Len(log) :
        /\ HasHeader(log[i]) /\ HeaderOf(log[i]) = 224
        /\ log[i].st = "Ok"
        /\ log[i].val.t = "LocalTimestamp1"
        /\ log[i].val.data_relation = "AssocEventDelay"

\* C12: a hardware-source header whose discriminator is outside {0, 1, 2} and
\* 8..23 makes the pull return InvalidHardwareDisc having taken the 8 bits of
\* the header and no more, and the next pull takes its header from the bits
\* that follow.
BadDisc(h) == FirstRow(h) = "HardwareSource" /\ (h \div 8) \notin ((0..2) \cup (8..23))
DiscRejectedAs(l, h) ==
    /\ l.st = "Malformed"
    /\ l.val = [t |-> "InvalidHardwareDisc", disc_id |-> h \div 8, size |-> h % 4]
    /\ l.bytes = <<h>>
    /\ l.e = l.s + 8
DiscRejected(l) == (HasHeader(l) /\ BadDisc(HeaderOf(l))) => DiscRejectedAs(l, HeaderOf(l))
HeaderFollows(prev, l, bits) ==
    (HasHeader(prev) /\ BadDisc(HeaderOf(prev))) =>
        /\ l.s = prev.e
        /\ Len(bits) - prev.e >= 8 => (HasHeader(l) /\ HeaderOf(l) = FlatByte(bits, prev.e))
C12_BadDiscriminator ==
    log # <<>> =>
        /\ DiscRejected(LastPull)
        /\ Len(log) >= 2 => HeaderFollows(log[Len(log) - 1], LastPull, AllBits)

C12_Witness ==
    /\ Len(log) = 2
    /\ HasHeader(log[1]) /\ BadDisc(HeaderOf(log[1]))
    /\ log[1].val.t = "InvalidHardwareDisc"
    /\ log[2].st = "Ok" /\ log[2].bytes = SubSeq(input, 2, 4)

\* the n bytes of the stream that start after its first p bits
StreamBytes(bits, p, n) == [k \in 1..n |-> FlatByte(bits, p + 8 * (k - 1))]
\* L(ss): the payload size that ss = 01, 10, 11 stands for
SizeOf(ss) == <<1, 2, 4>>[ss]

\* C13: a header aaaa_a0ss that no earlier row matches, with ss # 00 and
\* followed by L(ss) bytes, yields Instrumentation with port a and those
\* bytes, in stream order, as payload; with ss = 00 it yields
\* InvalidSourcePayload.
InstrumentationOf(l, h, bits) ==
    IF h % 4 = 0
    THEN /\ l.st = "Malformed"
         /\ l.val = [t |-> "InvalidSourcePayload", header |-> h, size |-> 0]
    ELSE IF Len(bits) - l.s >= 8 * (1 + SizeOf(h % 4))
    THEN /\ l.st = "Ok"
         /\ l.val = [t |-> "Instrumentation", port |-> h \div 8,
                     payload |-> StreamBytes(bits, l.s + 8, SizeOf(h % 4))]
         /\ l.e = l.s + 8 * (1 + SizeOf(h % 4))
    ELSE l.st = "Eof"
InstrumentationOn(l, bits) ==
    (HasHeader(l) /\ FirstRow(HeaderOf(l)) = "Instrumentation") =>
        InstrumentationOf(l, HeaderOf(l), bits)
C13_Instrumentation == log # <<>> => InstrumentationOn(LastPull, AllBits)

C13_Witness ==
    /\ input = <<139, 3, 15, 63, 255>>
    /\ Len(log) = 2
    /\ log[1].st = "Ok"
    /\ log[1].val = [t |-> "Instrumentation", port |-> 17, payload |-> <<3, 15, 63, 255>>]
    /\ log[2].st = "Eof"

\* a pull that started with a hardware-source header of discriminator disc and
\* found the whole payload in the stream
IsHardwarePull(l, bits) ==
    /\ HasHeader(l)
    /\ FirstRow(HeaderOf(l)) = "HardwareSource"
    /\ HeaderOf(l) % 4 # 0
    /\ HeaderOf(l) \div 8 \in (0..2) \cup (8..23)
    /\ Len(bits) - l.s >= 8 * (1 + SizeOf(HeaderOf(l) % 4))
DiscOf(l) == HeaderOf(l) \div 8
InvalidHardwarePacket(l) ==
    /\ l.st = "Malformed"
    /\ l.val = [t |-> "InvalidHardwarePacket", disc_id |-> DiscOf(l), payload |-> PayloadOf(l)]

\* C14: discriminator 1 with the payload (b0, b1): the exception number is
\* ((b1 & 1) << 8) | b0 and the function (b1 >> 4) & 3; an ExceptionTrace has
\* the action Entered, Exited, Returned of function 1, 2, 3; function 0 gives
\* InvalidExceptionTrace, which carries number and function; another payload
\* length gives InvalidHardwarePacket; 0E 20 30 gives the external interrupt
\* with irqn = 32, Returned.
Actions == <<"Entered", "Exited", "Returned">>
ExceptionTraceOf(l, n, f) ==
    /\ l.st \in {"Ok", "Malformed"}
    /\ l.st = "Ok" => (l.val.t = "ExceptionTrace" /\ f # 0 /\ l.val.action = Actions[f])
    /\ l.st = "Malformed" =>
           l.val = [t |-> "InvalidExceptionTrace", exception |-> n, function |-> f]
    /\ f = 0 => l.st = "Malformed"
    /\ l.bytes = <<14, 32, 48>> =>
           l.val = [t |-> "ExceptionTrace", exception |-> [t |-> "Interrupt", irqn |-> 32],
                    action |-> "Returned"]
ExceptionTraceOn(l, bits) ==
    (IsHardwarePull(l, bits) /\ DiscOf(l) = 1) =>
        IF Len(PayloadOf(l)) = 2
        THEN ExceptionTraceOf(l, (l.bytes[3] % 2) * 256 + l.bytes[2], (l.bytes[3] \div 16) % 4)
        ELSE InvalidHardwarePacket(l)
C14_ExceptionTrace == log # <<>> => ExceptionTraceOn(LastPull, AllBits)

C14_Witness ==
    /\ input = <<14, 32, 48>>
    /\ Len(log) = 1
    /\ log[1].st = "Ok"
    /\ log[1].val.exception = [t |-> "Interrupt", irqn |-> 32]
    /\ log[1].val.action = "Returned"

\* C15: every exception number of 16..511 with a function of 1..3 decodes to
\* the external interrupt with irqn = number - 16; none is rejected.
ExternalInterruptOf(l, n, f) ==
    (n >= 16 /\ f # 0) =>
        /\ l.st = "Ok"
        /\ l.val.t = "ExceptionTrace"
        /\ l.val.exception = [t |-> "Interrupt", irqn |-> n - 16]
ExternalInterruptOn(l, bits) ==
    (IsHardwarePull(l, bits) /\ DiscOf(l) = 1 /\ Len(PayloadOf(l)) = 2) =>
        ExternalInterruptOf(l, (l.bytes[3] % 2) * 256 + l.bytes[2], (l.bytes[3] \div 16) % 4)
C15_ExternalInterrupts == log # <<>> => ExternalInterruptOn(LastPull, AllBits)

\* bit k of the byte b
BitOf(b, k) == (b \div (2 ^ k)) % 2
\* the bit sequence v is the little-endian u32 of the four bytes p
IsLittleEndian(v, p) ==
    /\ Len(v) <= 32
    /\ \A k \in 0..31 : (IF k < Len(v) THEN v[k + 1] ELSE 0) = BitOf(p[k \div 8 + 1], k % 8)
    /\ v # <<>> => v[Len(v)] = 1

\* C16: the dispatch of the discriminators 0, 2 and 8..23 over payloads of
\* 1, 2 and 4 bytes: 0 with one byte is EventCounterWrap with cpi, exc,
\* sleep, lsu, fold, cyc = bits 0..5; 2 is PCSample{None} for the byte 00,
\* PCSample{Some(little-endian u32)} for four bytes, InvalidPCSampleSize
\* otherwise; 8..23 = t t c c d: (01, 0, 4 bytes) is DataTracePC, (01, 1,
\* 2 bytes) is DataTraceAddress, tt = 10 is DataTraceValue, Read for d = 0;
\* everything else is InvalidHardwarePacket.
EventCounterWrapOf(l, p) ==
    IF Len(p) = 1
    THEN /\ l.st = "Ok"
         /\ l.val = [t |-> "EventCounterWrap",
                     cpi |-> BitOf(p[1], 0) = 1, exc |-> BitOf(p[1], 1) = 1,
                     sleep |-> BitOf(p[1], 2) = 1, lsu |-> BitOf(p[1], 3) = 1,
                     fold |-> BitOf(p[1], 4) = 1, cyc |-> BitOf(p[1], 5) = 1]
    ELSE InvalidHardwarePacket(l)
PCSampleOf(l, p) ==
    IF p = <<0>>
    THEN l.st = "Ok" /\ l.val = [t |-> "PCSample", pc |-> None]
    ELSE IF Len(p) = 4
    THEN /\ l.st = "Ok"
         /\ l.val.t = "PCSample"
         /\ DOMAIN l.val = {"t", "pc"}
         /\ l.val.pc # None
         /\ IsLittleEndian(l.val.pc[1], p)
    ELSE l.st = "Malformed" /\ l.val = [t |-> "InvalidPCSampleSize", payload |-> p]
DataTraceOf(l, p, tt, cc, d) ==
    IF tt = 1 /\ d = 0 /\ Len(p) = 4
    THEN /\ l.st = "Ok"
         /\ l.val.t = "DataTracePC"
         /\ DOMAIN l.val = {"t", "comparator", "pc"}
         /\ l.val.comparator = cc
         /\ IsLittleEndian(l.val.pc, p)
    ELSE IF tt = 1 /\ d = 1 /\ Len(p) = 2
    THEN l.st = "Ok" /\ l.val = [t |-> "DataTraceAddress", comparator |-> cc, data |-> p]
    ELSE IF tt = 2
    THEN /\ l.st = "Ok"
         /\ l.val = [t |-> "DataTraceValue", comparator |-> cc,
                     access_type |-> IF d = 0 THEN "Read" ELSE "Write", value |-> p]
    ELSE InvalidHardwarePacket(l)
DispatchOf(l, disc, p) ==
    IF disc = 0 THEN EventCounterWrapOf(l, p)
    ELSE IF disc = 2 THEN PCSampleOf(l, p)
    ELSE DataTraceOf(l, p, disc \div 8, (disc \div 2) % 4, disc % 2)
DispatchOn(l, bits) ==
    (IsHardwarePull(l, bits) /\ DiscOf(l) # 1) => DispatchOf(l, DiscOf(l), PayloadOf(l))
C16_HardwareDispatch == log # <<>> => DispatchOn(LastPull, AllBits)

\* header 0100_1111 is discriminator 9 = 01 00 1 with four bytes, where only
\* (01, 1, 2 bytes) is a packet; header 1000_1101 is 17 = 10 00 1 with one byte
C16_Witness ==
    /\ Len(log) = 1
    /\ \/ /\ input = <<79, 42, 1, 128, 7>>
          /\ log[1].st = "Malformed"
          /\ log[1].val.t = "InvalidHardwarePacket"
          /\ log[1].val.payload = <<42, 1, 128, 7>>
       \/ /\ input = <<141, 42>>
          /\ log[1].st = "Ok"
          /\ log[1].val.t = "DataTraceValue"
          /\ log[1].val.access_type = "Write"

\* the continuation payload that starts at bit p of the stream: the bytes up
\* to and including the first one with bit 7 clear, None if there is none
LeastOf(ks) == CHOOSE k \in ks : \A j \in ks : k <= j
TerminatedAt(all) == {k \in 1..Len(all) : all[k] < 128}
ContinuationIn(all) ==
    IF TerminatedAt(all) = {} THEN None
    ELSE Some(SubSeq(all, 1, LeastOf(TerminatedAt(all))))
ContinuationOf(bits, p) == ContinuationIn(StreamBytes(bits, p, (Len(bits) - p) \div 8))
\* the bit sequence v is the number of `width` bits made of the low seven
\* bits of each byte of p, the first byte the least significant
IsSevenBitValue(v, p, width) ==
    /\ Len(v) <= width
    /\ \A k \in 0..(width - 1) :
           (IF k < Len(v) THEN v[k + 1] ELSE 0) = BitOf(p[k \div 7 + 1], k % 7)
    /\ v # <<>> => v[Len(v)] = 1
Ones(n) == [i \in 1..n |-> 1]

\* C17: after the header 1011_0100 the payload is read up to and including
\* the first byte with bit 7 clear; four bytes give a value of 22 bits (three
\* times seven and bit 0 of the last byte), six bytes one of 38 bits (five
\* times seven and bits 0..2 of the last byte), any other length gives
\* InvalidGTS2Size with the payload; B4 FF FF FF 01 gives 2^22 - 1 and
\* B4 FF FF FF FF FF 07 gives 2^38 - 1.
GlobalTimestamp2Of(l, p) ==
    /\ PayloadOf(l) = p
    /\ IF Len(p) \in {4, 6}
       THEN /\ l.st = "Ok"
            /\ l.val.t = "GlobalTimestamp2"
            /\ DOMAIN l.val = {"t", "ts"}
            /\ IsSevenBitValue(l.val.ts, p, IF Len(p) = 4 THEN 22 ELSE 38)
       ELSE /\ l.st = "Malformed"
            /\ l.val = [t |-> "InvalidGTS2Size", payload |-> p]
    /\ p = <<255, 255, 255, 1>> => l.val.ts = Ones(22)
    /\ p = <<255, 255, 255, 255, 255, 7>> => l.val.ts = Ones(38)
GlobalTimestamp2With(l, c) == c # None => GlobalTimestamp2Of(l, c[1])
GlobalTimestamp2On(l, bits) ==
    (HasHeader(l) /\ HeaderOf(l) = 180) =>
        GlobalTimestamp2With(l, ContinuationOf(bits, l.s + 8))
C17_GTS2Size == log # <<>> => GlobalTimestamp2On(LastPull, AllBits)

C17_Witness ==
    /\ input = <<180, 255, 255, 255, 255, 255, 7, 112>>
    /\ Len(log) = 1
    /\ log[1].st = "Ok"
    /\ log[1].val = [t |-> "GlobalTimestamp2", ts |-> Ones(38)]

\* C18: every LocalTimestamp1 that is yielded has ts < 2^27.
Lts1Within(l, width) ==
    (l.st = "Ok" /\ l.val.t = "LocalTimestamp1") => Len(l.val.ts) <= width
C18_Lts1Bound == log # <<>> => Lts1Within(LastPull, 27)

\* C19: a pull that yields a LocalTimestamp1 or a GlobalTimestamp1 has taken
\* at most five payload bytes after the header, one that yields a
\* GlobalTimestamp2 exactly four or six.
PayloadBound(l) ==
    l.st = "Ok" =>
        /\ l.val.t \in {"LocalTimestamp1", "GlobalTimestamp1"} => Len(PayloadOf(l)) <= 5
        /\ l.val.t = "GlobalTimestamp2" => Len(PayloadOf(l)) \in {4, 6}
C19_PayloadBound == log # <<>> => PayloadBound(LastPull)

\* C20: the encoding of a value of Overflow, Extension, LocalTimestamp2,
\* Instrumentation, DataTracePC, DataTraceAddress, DataTraceValue,
\* PCSample{Some} or EventCounterWrap, given to a fresh decoder, yields that
\* value and then the end of the input.
YieldsOnly(v) ==
    /\ Len(log) >= 1 => (log[1].st = "Ok" /\ log[1].val = v /\ log[1].e = 8 * Len(input))
    /\ Len(log) >= 2 => log[2].st = "Eof"
C20_RoundTrip == \A v \in RoundTripValues : input = Encoding(v) => YieldsOnly(v)

C20_Witness ==
    /\ input = <<71, 255, 255, 255, 255>>
    /\ Len(log) = 2
    /\ log[1].val = [t |-> "DataTracePC", comparator |-> 0, pc |-> Ones(32)]
    /\ log[2].st = "Eof"

\* C21: with ignore_eof clear a pull of Singles or of Timestamps returns None
\* as soon as the reader reports end of input before the item is complete
\* (at once on an empty input); with ignore_eof set no pull returns while
\* the reader is at end of input, and none returns None.
ReturnedNone(st) == st = "Eof"
PullRule(pulled, st) ==
    pulled =>
        /\ ReturnedNone(st) => (~ignore_eof /\ reader' = <<>> /\ buffer' = <<>>)
        /\ (reader = <<>> /\ buffer = <<>>) => ReturnedNone(st)
        /\ ignore_eof => ~ReturnedNone(st) /\ ~(reader = <<>> /\ buffer = <<>>)
SinglesPulled == log' # log
TimestampsPulled == tlog' # tlog /\ tlog # <<>>
EofRule ==
    /\ SinglesPulled => PullRule(TRUE, log'[Len(log')].st)
    /\ TimestampsPulled => PullRule(TRUE, tlog'[Len(tlog')].st)
C21_EndOfInput == [][EofRule]_vars

\* a pull that returned its item only after the bytes completing it arrived
C21_Witness ==
    /\ ignore_eof
    /\ Len(log) = 2
    /\ log[1].st = "Ok"
    /\ log[2].st = "Ok"
    /\ log[1].avail < log[2].e

\* C22: Decoder::timestamps panics for lts_prescaler = Disabled and reads no
\* input byte before it does; for the prescalers 1, 4, 16 and 64 it returns
\* a Timestamps with current_offset = 0 and neither half of the global
\* timestamp.
Prescalers == {"Enabled", "EnabledDiv4", "EnabledDiv16", "EnabledDiv64"}
ConstructionOf(n) ==
    /\ n.val.lts_prescaler = "Disabled" =>
           (n.st = "Panic" /\ reader' = reader /\ buffer' = buffer /\ pending' = pending)
    /\ n.val.lts_prescaler \in Prescalers =>
           /\ n.st = "New"
           /\ options' = n.val
           /\ current_offset' = <<>>
           /\ gts' = [lower |-> None, upper |-> None]
ConstructionRule == (tlog = <<>> /\ tlog' # <<>>) => ConstructionOf(tlog'[1])
C22_Construction == [][ConstructionRule]_vars

C22_Witness ==
    /\ Panicked
    /\ tlog[1].val.lts_prescaler = "Disabled"
    /\ input # <<>>
    /\ reader = input
    /\ buffer = <<>>

\* C23: a pull that returns InvalidGTS2Size, InvalidPCSampleSize,
\* InvalidHardwarePacket or InvalidExceptionTrace has taken the whole payload
\* out of the stream (L(ss) bytes after a hardware source header, the bytes
\* up to and including the terminator after the GlobalTimestamp2 header),
\* and the next pull takes the byte after the payload as a header.
PayloadErrors ==
    {"InvalidGTS2Size", "InvalidPCSampleSize", "InvalidHardwarePacket", "InvalidExceptionTrace"}
IsPayloadError(l) == l.st = "Malformed" /\ l.val.t \in PayloadErrors
WholePayloadOf(l, bits) ==
    IF HeaderOf(l) = 180
    THEN ContinuationOf(bits, l.s + 8)
    ELSE IF Len(bits) - l.s < 8 * (1 + SizeOf(HeaderOf(l) % 4)) THEN None
    ELSE Some(StreamBytes(bits, l.s + 8, SizeOf(HeaderOf(l) % 4)))
PayloadConsumed(l, bits) ==
    IsPayloadError(l) =>
        /\ HasHeader(l)
        /\ Some(PayloadOf(l)) = WholePayloadOf(l, bits)
        /\ l.e = l.s + 8 * Len(l.bytes)
HeaderAfterPayload(prev, l, bits) ==
    IsPayloadError(prev) =>
        /\ l.s = prev.e
        /\ Len(bits) - prev.e >= 8 => (HasHeader(l) /\ HeaderOf(l) = FlatByte(bits, prev.e))
C23_PayloadErrors ==
    log # <<>> =>
        /\ PayloadConsumed(LastPull, AllBits)
        /\ Len(log) >= 2 => HeaderAfterPayload(log[Len(log) - 1], LastPull, AllBits)

\* 06 is discriminator 0 with two payload bytes; 3F is read as the next header
C23_Witness ==
    /\ input = <<6, 3, 15, 63, 255>>
    /\ Len(log) = 2
    /\ log[1].st = "Malformed"
    /\ log[1].val = [t |-> "InvalidHardwarePacket", disc_id |-> 0, payload |-> <<3, 15>>]
    /\ log[2].bytes[1] = 63

\* C24: extract_timestamp(p, m) of a payload p of n bytes is the sum of
\* (p[i] & 0x7F) << 7i over the bytes before the last, OR-ed with
\* (p[n-1] & mask) << 7(n-1), mask keeping the low (m mod 7) + 1 bits, for
\* m = 27 (LocalTimestamp1, whose ts is the value as u32), 25
\* (GlobalTimestamp1), 21 and 37 (GlobalTimestamp2); C0 C9 01 gives ts = 0xC9
\* and C0 81 81 81 01 gives ts = 1 + 2^7 + 2^14 + 2^21.
MaxBitsOf(l) ==
    IF l.val.t = "LocalTimestamp1" THEN 27
    ELSE IF l.val.t = "GlobalTimestamp1" THEN 25
    ELSE IF Len(PayloadOf(l)) = 4 THEN 21 ELSE 37
WidthOf(p, m) == 7 * (Len(p) - 1) + (m % 7) + 1
ExtractedOf(l, p, m) ==
    /\ PayloadOf(l) = p
    /\ IsSevenBitValue(l.val.ts, p,
                       IF l.val.t = "LocalTimestamp1" THEN Min(32, WidthOf(p, m))
                       ELSE WidthOf(p, m))
    /\ l.bytes = <<192, 201, 1>> => l.val.ts = NatToBits(201)
    /\ l.bytes = <<192, 129, 129, 129, 1>> => l.val.ts = NatToBits(1 + 2^7 + 2^14 + 2^21)
IsContinuationPull(l) ==
    /\ HasHeader(l)
    /\ l.st = "Ok"
    /\ l.val.t \in {"LocalTimestamp1", "GlobalTimestamp1", "GlobalTimestamp2"}
ExtractedWith(l, c) == c # None /\ ExtractedOf(l, c[1], MaxBitsOf(l))
ExtractedOn(l, bits) == IsContinuationPull(l) => ExtractedWith(l, ContinuationOf(bits, l.s + 8))
Gts1Within(l, width) ==
    (l.st = "Ok" /\ l.val.t = "GlobalTimestamp1") => Len(l.val.ts) <= width
C25_Gts1Bound == log # <<>> => Gts1Within(LastPull, GTS2_SHIFT)

\* a pull that started with the GlobalTimestamp1 header and found the
\* terminator of the payload in the stream
IsGts1Pull(l) == HasHeader(l) /\ HeaderOf(l) = 148
LastOf(p) == p[Len(p)]

\* C26: for a GlobalTimestamp1 payload of 1 to 4 bytes, wrap is bit 6 and
\* clkch bit 5 of the last byte, and only bits 0..4 of the last byte are
\* part of ts, at bit 7 * (length - 1); 94 80 A0 84 60 gives
\* ts = (0x04 << 14) | (0x20 << 7) with wrap and clkch set.
Gts1FlagsOf(l, p) ==
    Len(p) <= 4 =>
        /\ l.st = "Ok"
        /\ PayloadOf(l) = p
        /\ l.val.t = "GlobalTimestamp1"
        /\ DOMAIN l.val = {"t", "ts", "wrap", "clkch"}
        /\ l.val.wrap = (BitOf(LastOf(p), 6) = 1)
        /\ l.val.clkch = (BitOf(LastOf(p), 5) = 1)
        /\ IsSevenBitValue(l.val.ts, p, 7 * (Len(p) - 1) + 5)
        /\ p = <<128, 160, 132, 96>> =>
               l.val.ts = NatToBits(4 * 2^14 + 32 * 2^7) /\ l.val.wrap /\ l.val.clkch
Gts1FlagsWith(l, c) == c # None => Gts1FlagsOf(l, c[1])
Gts1FlagsOn(l, bits) == IsGts1Pull(l) => Gts1FlagsWith(l, ContinuationOf(bits, l.s + 8))
ShortGts1Of(l, p) ==
    /\ Len(p) < 4 =>
           /\ l.st = "Ok"
           /\ l.val.t = "GlobalTimestamp1"
           /\ IsSevenBitValue(l.val.ts, p, 7 * Len(p))
           /\ ~l.val.wrap
           /\ ~l.val.clkch
    /\ Len(p) = 4 =>
           /\ l.st = "Ok"
           /\ l.val.t = "GlobalTimestamp1"
           /\ IsSevenBitValue(l.val.ts, p, 26)
           /\ l.val.wrap = (BitOf(LastOf(p), 6) = 1)
           /\ l.val.clkch = (BitOf(LastOf(p), 5) = 1)
ShortGts1With(l, c) == c # None => ShortGts1Of(l, c[1])
ShortGts1On(l, bits) == IsGts1Pull(l) => ShortGts1With(l, ContinuationOf(bits, l.s + 8))
C27_ShortGts1 == log # <<>> => ShortGts1On(LastPull, AllBits)

(***************************************************************************)
(* The global timestamp state, followed packet by packet through what      *)
(* next_single returned during a pull of Timestamps.                       *)
(***************************************************************************)
\* the bits of old from position Len(new) on, those of new below
PrefixMerged(old, new) ==
    Norm([i \in 1..Max(Len(old), Len(new)) |-> IF i <= Len(new) THEN new[i] ELSE old[i]])
LowerWith(lower, new) == IF lower = None THEN Some(new) ELSE Some(PrefixMerged(lower[1], new))
\* (upper << 26) | lower
MergedValue(g) == [i \in 1..26 |-> BitAt(g.lower[1], i)] \o g.upper[1]
Recomputed(s, g, freq) ==
    [gts |-> g,
     offset |-> IF g.lower # None /\ g.upper # None
                THEN calc_offset(Norm(MergedValue(g)), None, freq)
                ELSE s.offset]
AfterGts1(s, p, lower, freq) ==
    IF p.wrap THEN [s EXCEPT !.gts = [lower |-> lower, upper |-> None]]
    ELSE IF p.clkch THEN [s EXCEPT !.gts = [lower |-> None, upper |-> None]]
    ELSE Recomputed(s, [lower |-> lower, upper |-> s.gts.upper], freq)
AfterPacket(s, r, freq) ==
    IF r.st # "Ok" THEN s
    ELSE IF r.val.t = "GlobalTimestamp1"
    THEN AfterGts1(s, r.val, LowerWith(s.gts.lower, r.val.ts), freq)
    ELSE IF r.val.t = "GlobalTimestamp2"
    THEN Recomputed(s, [lower |-> s.gts.lower, upper |-> Some(r.val.ts)], freq)
    ELSE s
RECURSIVE AfterPackets(_, _, _)
AfterPackets(s, rs, freq) ==
    IF rs = <<>> THEN s ELSE AfterPackets(AfterPacket(s, Head(rs), freq), Tail(rs), freq)
LastBatch == tlog[Len(tlog)]
\* current_offset as the global timestamps of the pull left it
GtsOffset(e) == IF e.st = "Ok" THEN e.base ELSE e.offset1

\* C28: on GlobalTimestamp1{ts, wrap, clkch} the lower half is prefix-merged
\* with ts; then with wrap the upper half is cleared and the lower half kept
\* (with clkch set too), current_offset unchanged; else with clkch both
\* halves are cleared, current_offset unchanged; else current_offset is
\* recomputed from the merged value if and only if both halves are present.
Gts1HandledOn(e) ==
    AfterPackets([gts |-> e.gts0, offset |-> e.offset0], e.singles, options.clock_frequency)
        = [gts |-> e.gts1, offset |-> GtsOffset(e)]
C28_Gts1State == tlog # <<>> => Gts1HandledOn(LastBatch)

\* B4 81 80 80 00, then 94 61 (wrap and clkch): the lower half is kept
C28_Witness ==
    /\ input = <<180, 129, 128, 128, 0, 148, 97>>
    /\ Len(tlog) = 1
    /\ tlog[1].gts1 = [lower |-> Some(<<1>>), upper |-> None]
    /\ tlog[1].offset1 = <<>>

\* C29: replace_lower(new) stores new when there is no lower half; otherwise
\* the bits of the old value from position s on are kept and those below s
\* are new, s being the number of significant bits of new: new = 0 leaves
\* the old value as it is, and 42 merged with 1 gives 43.
IsPlainGts1(r) ==
    r.st = "Ok" /\ r.val.t = "GlobalTimestamp1" /\ ~r.val.wrap /\ ~r.val.clkch
MergedInto(old, new, res) ==
    /\ old = None => res = Some(new)
    /\ old # None =>
           /\ res # None
           /\ \A k \in 1..26 :
                  BitAt(res[1], k) = (IF k <= Len(new) THEN new[k] ELSE BitAt(old[1], k))
           /\ Len(res[1]) <= 26
           /\ new = <<>> => res = old
           /\ (old = Some(NatToBits(42)) /\ new = <<1>>) => res = Some(NatToBits(43))
\* a pull during which next_single returned one GlobalTimestamp1 without a
\* flag and then the end of the input
PrefixMergeOn(e) ==
    (Len(e.singles) = 1 /\ IsPlainGts1(e.singles[1])) =>
        MergedInto(e.gts0.lower, e.singles[1].val.ts, e.gts1.lower)
C29_PrefixMerge == tlog # <<>> => PrefixMergeOn(LastBatch)

C29_Witness ==
    /\ input = <<148, 170, 0, 180, 129, 128, 128, 0, 96, 148, 1>>
    /\ Len(tlog) = 2
    /\ tlog[2].gts0.lower = Some(NatToBits(42))
    /\ tlog[2].gts1.lower = Some(NatToBits(43))

\* C30: Timestamps keeps current_offset and both halves from one pull to the
\* next, and emitting a batch changes neither half: a GlobalTimestamp1
\* without a flag in a later batch recomputes the offset from the
\* GlobalTimestamp2 of an earlier one, as (upper << 26) | merged lower.
IsLocal(r) == r.st = "Ok" /\ r.val.t \in {"LocalTimestamp1", "LocalTimestamp2"}
KeptAcross(prev, e) == e.gts0 = prev.gts1 /\ e.offset0 = prev.offset1
\* the halves after a batch are those the global timestamps of the pull left
BatchKeeps(e) ==
    e.st = "Ok" =>
        /\ IsLocal(e.singles[Len(e.singles)])
        /\ e.gts1 = AfterPackets([gts |-> e.gts0, offset |-> e.offset0], e.singles,
                                 options.clock_frequency).gts
CompressedOf(e, prev, ts) ==
    /\ e.gts1 = [lower |-> LowerWith(prev.gts1.lower, ts), upper |-> prev.gts1.upper]
    /\ e.base = calc_offset(Norm(MergedValue(e.gts1)), None, options.clock_frequency)
CompressedOn(prev, e) ==
    (/\ prev.st = "Ok" /\ prev.gts1.lower # None /\ prev.gts1.upper # None
     /\ Len(e.singles) = 2 /\ IsPlainGts1(e.singles[1]) /\ IsLocal(e.singles[2])) =>
        CompressedOf(e, prev, e.singles[1].val.ts)
C30_StateKept ==
    tlog # <<>> =>
        /\ BatchKeeps(LastBatch)
        /\ Len(tlog) >= 2 =>
               /\ KeptAcross(tlog[Len(tlog) - 1], LastBatch)
               /\ CompressedOn(tlog[Len(tlog) - 1], LastBatch)

\* 94 AA 00  B4 81 80 80 00  60, then 94 01  60: the second batch starts
\* from (1 << 26) | 43 ticks, 4194306688 ns at 16 MHz
C30_Witness ==
    /\ input = <<148, 170, 0, 180, 129, 128, 128, 0, 96, 148, 1, 96>>
    /\ Len(tlog) = 2
    /\ tlog[2].st = "Ok"
    /\ tlog[2].gts1 = [lower |-> Some(NatToBits(43)), upper |-> Some(<<1>>)]
    /\ tlog[2].base = BShl(NatToBits(1048576672), 2)

\* C31: in every batch, consumed_packets is the number of packets of the
\* batch, plus the number of malformed packets captured, plus the number of
\* global timestamp packets decoded during the pull, plus one for the
\* closing local timestamp; it is never less than 1.
IsGlobal(r) == r.st = "Ok" /\ r.val.t \in {"GlobalTimestamp1", "GlobalTimestamp2"}
GlobalsOf(rs) == Len(SelectSeq(rs, IsGlobal))
ConsumedOn(e) ==
    e.st = "Ok" =>
        /\ e.val.consumed_packets =
               Len(e.val.packets) + Len(e.val.malformed_packets) + GlobalsOf(e.singles) + 1
        /\ e.val.consumed_packets >= 1
        /\ e.val.consumed_packets = Len(e.singles)
C31_ConsumedPackets == tlog # <<>> => ConsumedOn(LastBatch)

\* 70 FF 94 01 60 with expect_malformed: one packet, one malformed packet,
\* one global timestamp and the local timestamp
C31_Witness ==
    /\ tlog # <<>>
    /\ LastBatch.st = "Ok"
    /\ Len(LastBatch.val.packets) = 1
    /\ Len(LastBatch.val.malformed_packets) = 1
    /\ GlobalsOf(LastBatch.singles) = 1
    /\ LastBatch.val.consumed_packets = 4

\* C32: a hardware source header with an invalid discriminator yields
\* InvalidHardwareDisc whose size is the number of payload bytes (1, 2 or 4)
\* that the ss field of the header announces.
InvalidDiscOn(l) ==
    (/\ HasHeader(l)
     /\ FirstRow(HeaderOf(l)) = "HardwareSource"
     /\ DiscOf(l) \notin (0..2) \cup (8..23)
     /\ HeaderOf(l) % 4 # 0) =>
        /\ l.st = "Malformed"
        /\ l.val = [t |-> "InvalidHardwareDisc", disc_id |-> DiscOf(l),
                    size |-> SizeOf(HeaderOf(l) % 4)]
C32_DiscSize == log # <<>> => InvalidDiscOn(LastPull)


\* C37: decode_header gives every byte a result and never InvalidHeader: the
\* rows aaaa_a0ss and aaaa_a1ss match what no earlier row does.  A header
\* byte is an error only as InvalidHardwareDisc, when the row is aaaa_a1ss
\* and the discriminator is invalid, whatever ss is, or else as
\* InvalidSourcePayload, when the row is a source row and ss = 00; FF gives
\* InvalidHardwareDisc with disc_id 31.
SourceRows == {"Instrumentation", "HardwareSource"}
HeaderErrorOf(h, r) ==
    /\ r.k \in {"Stub", "Packet", "Err"}
    /\ FirstRow(h) # "None"
    /\ r.k = "Err" <=> (FirstRow(h) \in SourceRows /\ (BadDisc(h) \/ h % 4 = 0))
    /\ r.k = "Err" =>
           /\ r.v.t = (IF BadDisc(h) THEN "InvalidHardwareDisc" ELSE "InvalidSourcePayload")
           /\ r.v.t = "InvalidHardwareDisc" => r.v.disc_id = h \div 8
           /\ r.v.t = "InvalidSourcePayload" => (r.v.header = h /\ r.v.size = 0)
NeverInvalidHeader(l) == l.st = "Malformed" => l.val.t # "InvalidHeader"
HeaderErrorsOn(l) ==
    /\ NeverInvalidHeader(l)
    /\ HasHeader(l) =>
           /\ HeaderErrorOf(HeaderOf(l), decode_header(HeaderOf(l)))
           /\ HeaderYield(l, decode_header(HeaderOf(l)))
C37_HeaderErrors == log # <<>> => HeaderErrorsOn(LastPull)

\* 1C (0001_1100): invalid discriminator 3 and ss = 00 at once
C37_Witness ==
    /\ Len(log) = 1
    /\ log[1].bytes = <<28>>
    /\ log[1].val = [t |-> "InvalidHardwareDisc", disc_id |-> 3, size |-> 0]


\* C38: a pull that counts the zero bits of a Sync and meets the end of
\* input returns it with Decoder.sync holding the zero bits counted so far,
\* the 8 of the header included; the next pull goes on from that number, and
\* the pull that meets the 1 bit yields Sync or InvalidSync by the number of
\* zero bits between the header and the 1 bit in the stream, wherever the
\* pulls in between ended.
Counting(l) == l.sync0 # None \/ (HasHeader(l) /\ HeaderOf(l) = 0)
CountBefore(l) == IF l.sync0 = None THEN 0 ELSE l.sync0[1]
AllZero(bits, from, to) == \A k \in (from + 1)..to : bits[k] = 0
SyncOutcome(zeros) ==
    IF zeros >= 47 THEN [st |-> "Ok", val |-> [t |-> "Sync"]]
    ELSE [st |-> "Malformed", val |-> [t |-> "InvalidSync", zeros |-> zeros]]
CountKept(l, bits, n) ==
    /\ l.s - n >= 0
    /\ AllZero(bits, l.s - n, l.s)
    /\ l.st = "Eof" =>
           /\ l.e = l.avail
           /\ AllZero(bits, l.s, l.e)
           /\ l.sync1 = Some(l.e - (l.s - n))
    /\ l.st # "Eof" =>
           /\ l.sync1 = None
           /\ AllZero(bits, l.s, l.e - 1)
           /\ bits[l.e] = 1
           /\ Item(l) = SyncOutcome((l.e - 1) - (l.s - n))
CountKeptOn(l, bits) == Counting(l) => CountKept(l, bits, CountBefore(l))
CountResumed(prev, l) == l.sync0 = prev.sync1 /\ l.s = prev.e
C38_SyncAcrossEof ==
    log # <<>> =>
        /\ CountKeptOn(LastPull, AllBits)
        /\ Len(log) >= 2 => CountResumed(log[Len(log) - 1], LastPull)

\* a Sync whose zero bits were counted by two pulls, the first of which met
\* the end of input
C38_Witness ==
    /\ Len(log) >= 2
    /\ log[Len(log) - 1].st = "Eof"
    /\ log[Len(log) - 1].sync1 = Some(40)
    /\ LastPull.sync0 = Some(40)
    /\ Item(LastPull) = [st |-> "Ok", val |-> [t |-> "Sync"]]


\* C39: a batch holds the packets and the captured malformed packets that
\* its own pull decoded and none of an earlier pull, so what a pull decoded
\* before it ended with the end of input or with an error is in no batch;
\* such a pull leaves current_offset and both halves as its global
\* timestamp packets set them, and the next pull starts from them.
OwnPacketsOnly(e) ==
    e.st = "Ok" =>
        /\ e.val.packets = DataOf(e.singles)
        /\ e.val.malformed_packets = MalformedOf(e.singles)
UpdatesKept(e) ==
    e.st # "Ok" =>
        AfterPackets([gts |-> e.gts0, offset |-> e.offset0], e.singles,
                     options.clock_frequency)
            = [gts |-> e.gts1, offset |-> e.offset1]
RECURSIVE TimestampsOf(_)
TimestampsOf(es) ==
    IF es = <<>> THEN <<>>
    ELSE (IF Head(es).st = "Ok" THEN <<Head(es).val.timestamp>> ELSE <<>>)
         \o TimestampsOf(Tail(es))
NonDecreasing(ts) == \A k \in 2..Len(ts) : BLeq(ts[k - 1].offset, ts[k].offset)
SortedCheckOn(ts) == is_sorted_increasing(ts, 1, None) <=> NonDecreasing(ts)
C40_SortedCheck == SortedCheckOn(TimestampsOf(tlog))

(***************************************************************************)
(* The push-style decoder (SpecPush).                                      *)
(***************************************************************************)
\* the zero bits at the start of the stream, as the wire carries them
LeadingZeros == ZeroRun(Reverse(AllBits))

\* C33: when a stream that starts with a 0x00 header and holds a 1 bit is
\* pushed in one call, the first pull yields Sync if at least 47 zero bits
\* come before the first 1 bit, more than 47 included (six 00 bytes and 80),
\* and the invalid-sync error if fewer do.
C33_PushSync ==
    (/\ Len(log) >= 1
     /\ log[1].pending = <<>>
     /\ input[1] = 0
     /\ LeadingZeros < Len(AllBits))
    => IF LeadingZeros >= MIN_ZEROS
       THEN log[1].st = "Ok" /\ log[1].val = [t |-> "Sync"]
       ELSE log[1].st = "Err" /\ log[1].val.t = "InvalidSyncSize"

\* C34: after a pull that returns a DecoderError the state of the decoder is
\* Header, so that the next byte is decoded as a header without the caller
\* assigning decoder.state.
C34_ErrorRecovery ==
    \A i \in 1..Len(log) :
        log[i].st = "Err" => log[i].state1 = [t |-> "Header"]

\* What the packets that pull has returned, oldest first, say about the
\* timestamp: the halves of the global timestamp not yet paired, the base of
\* the last completed pair, the sum of the local timestamps since then and
\* whether an Overflow has come since then.  With only_gts a local timestamp
\* is a data packet and is not added.
RECURSIVE SinceLastPair(_, _, _, _)
SinceLastPair(items, i, only_gts, a) ==
    IF i > Len(items) THEN a
    ELSE IF items[i].st # "Ok" THEN SinceLastPair(items, i + 1, only_gts, a)
    ELSE LET p == items[i].val
             lower == IF p.t # "GlobalTimestamp1" THEN a.lower
                      ELSE IF p.clkch THEN None ELSE Some(p.ts)
             upper == IF p.t = "GlobalTimestamp2" THEN Some(p.ts)
                      ELSE IF p.t = "GlobalTimestamp1" /\ (p.wrap \/ p.clkch) THEN None
                      ELSE a.upper
             lts == IF p.t = "LocalTimestamp1" THEN p.ts ELSE NatToBits(p.ts)
         IN IF p.t \in {"GlobalTimestamp1", "GlobalTimestamp2"}
            THEN (IF lower # None /\ upper # None
                  THEN SinceLastPair(items, i + 1, only_gts,
                           [lower |-> None, upper |-> None,
                            base |-> Some(BOr(BShl(upper[1], GTS2_TS_SHIFT), lower[1])),
                            sum |-> None, overflow |-> FALSE])
                  ELSE SinceLastPair(items, i + 1, only_gts,
                           [a EXCEPT !.lower = lower, !.upper = upper]))
            ELSE IF p.t = "Overflow"
            THEN SinceLastPair(items, i + 1, only_gts, [a EXCEPT !.overflow = TRUE])
            ELSE IF p.t \in {"LocalTimestamp1", "LocalTimestamp2"} /\ ~only_gts
            THEN SinceLastPair(items, i + 1, only_gts,
                     [a EXCEPT !.sum = IF @ = None THEN Some(lts)
                                       ELSE Some(BAdd(@[1], lts))])
            ELSE SinceLastPair(items, i + 1, only_gts, a)

\* everything pull has returned during the first k calls of pull_with_timestamp
RECURSIVE SeenUpTo(_)
SeenUpTo(k) == IF k = 0 THEN <<>> ELSE SeenUpTo(k - 1) \o tlog[k].seen

ExpectedTimestamp(a, ts) ==
    /\ ts.diverged = a.overflow
    /\ ts.base = a.base
    /\ ts.delta = a.sum
TimestampOn(items) ==
    ExpectedTimestamp(
        SinceLastPair(items, 1, decoder.ts_ctx.only_gts,
                      [lower |-> None, upper |-> None, base |-> None, sum |-> None,
                       overflow |-> FALSE]),
        tlog[Len(tlog)].val.timestamp)

\* C35: the timestamp of a batch of pull_with_timestamp has diverged set if
\* and only if an Overflow was decoded after the last completed pair of
\* GlobalTimestamp1 and GlobalTimestamp2 (or no pair was completed yet); its
\* base is (GTS2 << 26) | GTS1 of that pair and its delta the sum of the local
\* timestamps since that pair.
C35_Diverged ==
    (tlog # <<>> /\ tlog[Len(tlog)].st = "Ok") => TimestampOn(SeenUpTo(Len(tlog)))

\* 94 01 B4 81 80 80 00, then 70, then the pair again, then 60: the batch
\* holds the Overflow and has the base of the pair, delta 6 and diverged clear
C35_Witness ==
    /\ input = <<148, 1, 180, 129, 128, 128, 0, 112, 148, 1, 180, 129, 128, 128, 0, 96>>
    /\ Len(tlog) = 1
    /\ tlog[1].st = "Ok"
    /\ tlog[1].val.timestamp = [base |-> Some(BOr(BShl(<<1>>, GTS2_TS_SHIFT), <<1>>)),
                                delta |-> Some(NatToBits(6)),
                                data_relation |-> Some("Sync"), diverged |-> FALSE]
    /\ tlog[1].val.packets = <<[t |-> "Overflow"]>>

\* what the pulls so far have returned, the Ok(None) left out
Pulled ==
    [i \in 1..Len(SelectSeq(log, LAMBDA e : e.st # "None")) |->
        [st |-> SelectSeq(log, LAMBDA e : e.st # "None")[i].st,
         val |-> SelectSeq(log, LAMBDA e : e.st # "None")[i].val]]

\* what pull returns, called on d until it returns Ok(None)
RECURSIVE PullAll(_)
PullAll(d) ==
    LET rest(r) == IF r.st = "None" THEN <<>>
                   ELSE <<[st |-> r.st, val |-> r.val]>> \o PullAll(r.d)
    IN rest(pull(d))

\* a decoder as Decoder::new makes it, with the configuration of this one
NewDecoder == [decoder EXCEPT !.incoming = <<>>, !.state = [t |-> "Header"]]

\* C36: when the bytes of a stream have been pushed in pieces, with pull
\* called after each push until it returned Ok(None), the packets and errors
\* pulled are those that a decoder yields to which the whole stream is pushed
\* in one call.
C36_ChunkIndependence ==
    (/\ log # <<>>
     /\ log[Len(log)].pending = <<>>
     /\ log[Len(log)].st = "None")
    => Pulled = PullAll(push(NewDecoder, input))

====
